---- MODULE Spec2Model ----
(***************************************************************************)
(* Model of the schema registry updater                                    *)
(* (crates/admin/src/schema_registry/updater.rs) and of the partition      *)
(* leadership state machine (crates/worker/src/partition/leadership/).     *)
(*                                                                         *)
(* The catalog (SchemaInformation) is the triple deployments / components  *)
(* / subscriptions plus its version; a SchemaUpdater session wraps it with *)
(* the `modified` flag.  Hash maps are functions with a finite domain, an  *)
(* Option<T> is a set with at most one element, and a hash map's iteration *)
(* order is a nondeterministic choice.                                     *)
(***************************************************************************)
EXTENDS Integers, Sequences, FiniteSets, TLC

VARIABLES
    deployments,    \* SchemaInformation.deployments : DeploymentId -> DeploymentSchemas
    components,     \* SchemaInformation.components  : name -> ComponentSchemas
    subscriptions,  \* SchemaInformation.subscriptions : SubscriptionId -> Subscription
    version,        \* SchemaInformation.version
    modified,       \* SchemaUpdater.modified
    session,        \* "open": a SchemaUpdater holds the catalog; "closed": into_inner returned it
    base,           \* history: the version of the catalog handed to SchemaUpdater::from
    changed,        \* history: some mutator call of this session changed the catalog
    added,          \* history: some add_deployment call of this session succeeded
    called,         \* history: some mutator was called in this session
    pre,            \* history: catalog and flag right before the observed call
    last,           \* history: the observed call, its arguments and its result
    steps           \* number of mutator calls made so far

(* State of the partition leadership state machine and of its collaborators *)
VARIABLES
    leadership,     \* variant of the LeadershipState value: "Follower", "Leader", or
                    \* "None" once a transition that took it by value did not return it
    leader_state,   \* Option<LeaderState>: {} or {[leader_epoch, shuffle_task_id]}
    pc,             \* suspension point of the partition processor task
    call,           \* the transition in progress
    tasks,          \* task center: TaskId -> [leader_epoch, status, result]
    objects,        \* live objects built for a leader term: set of [kind, shuffle_task_id]
    invoker,        \* the invoker: [running, partitions, invocations]
    shutdown,       \* the task center is shutting down
    events,         \* history: calls made and returned, in order
    instance,       \* history: number of LeadershipState values built by `follower`
    transitions     \* number of become_leader / become_follower calls made so far

(* State touched by handle_actions *)
VARIABLES
    actions,        \* the argument of the latest handle_actions call
    applied,        \* history: what the latest handle_actions call did, in order
    batches,        \* number of handle_actions calls made so far
    ingress,        \* respond-to-ingress tasks: [pending, sent, failed, dropped]
    fired,          \* history: the latest run_timer call: [leader_epoch, stored, value]
    timers,         \* LeaderState.timer_service: the timer keys it holds
    hints,          \* hint channel of the shuffle: [held, lost], the hints not
                    \* consumed yet and (history) the number of hints lost
    effects,        \* actions_effects channel: number of undelivered ActionEffects
    stream          \* the ActionEffectStream the caller holds: "Follower",
                    \* "Leader", "closed" (receivers dropped) or "None"

updaterVars == <<deployments, components, subscriptions, version, modified,
                 session, base, changed, added, called, pre, last, steps>>

(* Owned by the caller of handle_actions and by the task center *)
callVars == <<actions, applied, batches, ingress, fired>>

(* Owned by the LeaderState of the current term, or handed out with it *)
termVars == <<timers, hints, effects, stream>>

leadershipVars == <<leadership, leader_state, pc, call, tasks, objects, invoker,
                    shutdown, events, instance, transitions, callVars, termVars>>

vars == <<deployments, components, subscriptions, version, modified,
          session, base, changed, added, called, pre, last, steps,
          leadership, leader_state, pc, call, tasks, objects, invoker,
          shutdown, events, instance, transitions,
          actions, applied, batches, ingress, fired, timers, hints, effects, stream>>

-----------------------------------------------------------------------------
(* Bounds of the model *)

MaxSteps == 3
MaxDeployments == 2
MaxProposal == 2

(* ComponentRevision is an unsigned counter incremented with wrapping_add   *)
(* (updater.rs:192).  The model keeps the wrapping arithmetic and scales    *)
(* the width of the counter down to 4 bits.                                 *)
RevisionModulus == 16

-----------------------------------------------------------------------------
(* Generic helpers for hash maps *)

MapRemove(m, k) == [x \in DOMAIN m \ {k} |-> m[x]]

MapRemoveAll(m, ks) == [x \in DOMAIN m \ ks |-> m[x]]

MapInsert(m, k, v) == [x \in DOMAIN m \cup {k} |-> IF x = k THEN v ELSE m[x]]

MapInsertAll(m, n) == [x \in DOMAIN m \cup DOMAIN n |-> IF x \in DOMAIN n THEN n[x] ELSE m[x]]

EmptyMap == [x \in {} |-> x]

-----------------------------------------------------------------------------
(* Input universe *)

DeploymentIds == 1..MaxDeployments

Endpoints == {"http://localhost:9080", "http://localhost:9081"}

GREETER_SERVICE_NAME == "greeter.Greeter"

ANOTHER_GREETER_SERVICE_NAME == "greeter.AnotherGreeter"

(* schema::Handler: name, handler_type, input, output.  A payload is       *)
(* "None" (absent), "Valid" (its content type parses) or "Invalid" (its    *)
(* content type does not parse).                                           *)
Handler(name, handler_type, input, output) ==
    [name |-> name, handler_type |-> handler_type, input |-> input, output |-> output]

greet == Handler("greet", "None", "None", "None")

doSomething == Handler("doSomething", "None", "None", "None")

another_greeter == Handler("another_greeter", "None", "None", "None")

bad_output == Handler("bad_output", "Exclusive", "Valid", "Invalid")

bad_input == Handler("bad_input", "None", "Invalid", "None")

Component(name, ty, handlers) ==
    [fully_qualified_component_name |-> name, component_type |-> ty, handlers |-> handlers]

greeter_service == Component(GREETER_SERVICE_NAME, "Service", <<greet>>)

greeter_virtual_object == Component(GREETER_SERVICE_NAME, "VirtualObject", <<greet>>)

greeter_v1_service == Component(GREETER_SERVICE_NAME, "Service", <<greet, doSomething>>)

another_greeter_service == Component(ANOTHER_GREETER_SERVICE_NAME, "Service", <<another_greeter>>)

another_greeter_bad_content_type ==
    Component(ANOTHER_GREETER_SERVICE_NAME, "Service", <<another_greeter, bad_output, bad_input>>)

DiscoveredComponents ==
    { greeter_service, greeter_virtual_object, greeter_v1_service,
      another_greeter_service, another_greeter_bad_content_type }

SeqsUpTo(S, n) == UNION { [1..k -> S] : k \in 0..n }

Proposals == SeqsUpTo(DiscoveredComponents, MaxProposal)

-----------------------------------------------------------------------------
(* Results: Ok(value) or Err(kind, detail) *)

Ok(value) == [ok |-> TRUE, err |-> "", detail |-> [none |-> TRUE], value |-> value]

Err(kind, detail) == [ok |-> FALSE, err |-> kind, detail |-> detail, value |-> {}]

(* The candidates of an Option produced by a lookup: {} is None, {x} is Some(x) *)
Options(S) == IF S = {} THEN {{}} ELSE {{x} : x \in S}

Least(S) == CHOOSE i \in S : \A j \in S : i <= j

-----------------------------------------------------------------------------
(* DiscoveredHandlerMetadata *)

default_for_component_type(component_type) ==
    IF component_type = "Service" THEN "Shared" ELSE "Exclusive"

input_rules_from_schema(handler_name, input) ==
    IF input = "Invalid"
    THEN Err("BadInputContentType", [handler |-> handler_name])
    ELSE Ok("ContentType")

output_rules_from_schema(output) ==
    IF output = "Invalid"
    THEN Err("BadOutputContentType", [content_type |-> output])
    ELSE Ok("Set")

from_schema(component_type, handler) ==
    LET handler_type == IF handler.handler_type = "None"
                        THEN default_for_component_type(component_type)
                        ELSE handler.handler_type
        input  == IF handler.input = "None" THEN Ok("Default")
                  ELSE input_rules_from_schema(handler.name, handler.input)
        output == IF handler.output = "None" THEN Ok("None")
                  ELSE output_rules_from_schema(handler.output)
    IN  IF ~input.ok THEN input
        ELSE IF ~output.ok THEN output
        ELSE Ok([name |-> handler.name, ty |-> handler_type,
                 input |-> input.value, output |-> output.value])

(* The handler map of a component: one entry per name, a later handler of  *)
(* the list replacing an earlier one of the same name (HashMap collect).   *)
compute_handlers(component_ty, handlers) ==
    LET names == {handlers[i].name : i \in 1..Len(handlers)}
        lastOf(n) == CHOOSE i \in 1..Len(handlers) :
                        /\ handlers[i].name = n
                        /\ \A j \in 1..Len(handlers) : handlers[j].name = n => j <= i
    IN  [n \in names |->
            [target_meta |->
                [public |-> TRUE,
                 component_ty |-> component_ty,
                 handler_ty |-> handlers[lastOf(n)].ty,
                 input_rules |-> handlers[lastOf(n)].input,
                 output_rules |-> handlers[lastOf(n)].output]]]

(* updater.rs:131-138: every handler is converted in list order, the first *)
(* failure is returned, otherwise the handler map is computed.             *)
DiscoverHandlers(component_type, handlers) ==
    LET rs  == [i \in 1..Len(handlers) |-> from_schema(component_type, handlers[i])]
        bad == {i \in 1..Len(handlers) : ~rs[i].ok}
    IN  IF bad # {}
        THEN rs[Least(bad)]
        ELSE Ok(compute_handlers(component_type,
                                 [i \in 1..Len(handlers) |-> rs[i].value]))

-----------------------------------------------------------------------------
(* SchemaInformation lookups *)

find_existing_deployment_by_id(deps, id) ==
    IF id \in DOMAIN deps THEN {id} ELSE {}

find_existing_deployment_by_endpoint(deps, metadata) ==
    {d \in DOMAIN deps : deps[d].metadata.address = metadata.address}

(* Mutant: an existing deployment is looked up by id only *)
FoundExistingDeployment_ByIdOnly(deps, requested_deployment_id, deployment_metadata) ==
    UNION {find_existing_deployment_by_id(deps, id) : id \in requested_deployment_id}

(* updater.rs:79-84: by id when an id is requested and known, else by endpoint *)
FoundExistingDeployment(deps, requested_deployment_id, deployment_metadata) ==
    LET by_id == UNION {find_existing_deployment_by_id(deps, id) : id \in requested_deployment_id}
    IN  IF by_id # {} THEN by_id
        ELSE find_existing_deployment_by_endpoint(deps, deployment_metadata)

(* ComponentSchemas::as_component_metadata: the snapshot kept in a record *)
as_component_metadata(name, schema) ==
    [name |-> name, revision |-> schema.revision]

increment_version(v) == v + 1

-----------------------------------------------------------------------------
(* add_deployment, step by step *)

(* updater.rs:70-76: the proposal as a map by component name; a later      *)
(* component of the list replaces an earlier one of the same name.         *)
ProposedComponents(comps) ==
    LET names == {comps[i].fully_qualified_component_name : i \in 1..Len(comps)}
        lastOf(n) == CHOOSE i \in 1..Len(comps) :
                        /\ comps[i].fully_qualified_component_name = n
                        /\ \A j \in 1..Len(comps) :
                              comps[j].fully_qualified_component_name = n => j <= i
    IN  [n \in names |-> comps[lastOf(n)]]

(* updater.rs:89: the requested id is set and differs from the existing one *)
IsIncorrectId(requested_deployment_id, existing_deployment_id) ==
    \E dp \in requested_deployment_id : dp # existing_deployment_id

(* Mutant: the force flag is read the wrong way round *)
IsOverride_Inverted(found, force) == found # {} /\ force

(* updater.rs:98-117: an existing deployment is overwritten only when forced *)
IsOverride(found, force) == found # {} /\ ~force

(* Mutant: a forced redeployment removes nothing *)
ComponentsToRemove_Nothing(existing_deployment, proposed_components) == {}

(* updater.rs:101-112: components of the existing deployment that the new  *)
(* proposal does not contain                                               *)
ComponentsToRemove(existing_deployment, proposed_components) ==
    {c.name : c \in existing_deployment.components} \ DOMAIN proposed_components

(* Mutant: the added handlers are computed instead of the removed ones *)
RemovedHandlers_Reversed(existing_component, handlers) ==
    {name \in DOMAIN handlers : name \notin DOMAIN existing_component.handlers}

(* updater.rs:146-151 *)
RemovedHandlers(existing_component, handlers) ==
    {name \in DOMAIN existing_component.handlers : name \notin DOMAIN handlers}

(* Mutant: the component type is not compared *)
TypeChanged_Never(existing_component, component_type) == FALSE

(* updater.rs:170 *)
TypeChanged(existing_component, component_type) ==
    existing_component.ty # component_type

(* Mutant: the overwritten component keeps its previous deployment *)
OverwrittenSchemas_KeepsLocation(existing_component, component_type, handlers, deployment_id) ==
    [existing_component EXCEPT
        !.revision = (existing_component.revision + 1) % RevisionModulus,
        !.ty = component_type,
        !.handlers = handlers]

(* Mutant: the revision saturates at the largest value instead of wrapping *)
OverwrittenSchemas_Saturating(existing_component, component_type, handlers, deployment_id) ==
    [existing_component EXCEPT
        !.revision = IF existing_component.revision = RevisionModulus - 1
                     THEN RevisionModulus - 1
                     ELSE existing_component.revision + 1,
        !.ty = component_type,
        !.handlers = handlers,
        !.location.latest_deployment = deployment_id]

(* Mutant: the overwritten component becomes public again *)
OverwrittenSchemas_ResetsPublic(existing_component, component_type, handlers, deployment_id) ==
    [existing_component EXCEPT
        !.revision = (existing_component.revision + 1) % RevisionModulus,
        !.ty = component_type,
        !.handlers = handlers,
        !.location = [latest_deployment |-> deployment_id, public |-> TRUE]]

(* updater.rs:191-197: the schemas of a component that is overwritten *)
OverwrittenSchemas(existing_component, component_type, handlers, deployment_id) ==
    [existing_component EXCEPT
        !.revision = (existing_component.revision + 1) % RevisionModulus,
        !.ty = component_type,
        !.handlers = handlers,
        !.location.latest_deployment = deployment_id]

(* updater.rs:199-207: the schemas of a component registered for the first time *)
NewSchemas(component_type, handlers, deployment_id) ==
    [revision |-> 1,
     handlers |-> handlers,
     ty |-> component_type,
     location |-> [latest_deployment |-> deployment_id, public |-> TRUE]]

(* updater.rs:129-211, one iteration of the loop: the schemas to add for   *)
(* the proposed component, or the error the loop returns at it.            *)
ComponentSchema(comps, component_name, component, deployment_id, force) ==
    LET component_type == component.component_type
        handlers == DiscoverHandlers(component_type, component.handlers)
    IN  IF ~handlers.ok THEN handlers
        ELSE IF component_name \in DOMAIN comps
        THEN LET existing_component == comps[component_name]
                 removed_handlers == RemovedHandlers(existing_component, handlers.value)
             IN  IF removed_handlers # {} /\ ~force
                 THEN Err("RemovedHandlers",
                          [component |-> component_name, handlers |-> removed_handlers])
                 ELSE IF TypeChanged(existing_component, component_type) /\ ~force
                 THEN Err("DifferentType", [component |-> component_name])
                 ELSE Ok(OverwrittenSchemas(existing_component, component_type,
                                            handlers.value, deployment_id))
        ELSE Ok(NewSchemas(component_type, handlers.value, deployment_id))

(* updater.rs:213-236: the catalog after the commit *)
ComponentsAfterAdd(comps, components_to_remove, components_to_add) ==
    MapInsertAll(MapRemoveAll(comps, components_to_remove), components_to_add)

DeploymentsAfterAdd(deps, deployment_id, deployment_metadata, components_to_add) ==
    MapInsert(deps, deployment_id,
              [components |-> {as_component_metadata(n, components_to_add[n]) :
                                  n \in DOMAIN components_to_add},
               metadata |-> deployment_metadata])

-----------------------------------------------------------------------------
(* Inputs of the subscription operations *)

MaxSubscriptions == 2

SubscriptionIds == 1..MaxSubscriptions

(* http::Uri: scheme, authority (an Option) and the path after its leading "/" *)
Uri(scheme, authority, path) == [scheme |-> scheme, authority |-> authority, path |-> path]

SourceUris ==
    { Uri("kafka", {"my-cluster"}, "my-topic"),
      Uri("kafka", {}, "my-topic"),
      Uri("http", {"my-cluster"}, "my-topic") }

SinkUris ==
    { Uri("component", {GREETER_SERVICE_NAME}, "greet"),
      Uri("component", {GREETER_SERVICE_NAME}, "doSomething"),
      Uri("component", {}, "greet"),
      Uri("http", {GREETER_SERVICE_NAME}, "greet") }

(* updater.rs:286-308 *)
ParseSource(source) ==
    IF source.scheme = "kafka"
    THEN IF source.authority = {}
         THEN Err("InvalidKafkaSourceAuthority", [uri |-> source])
         ELSE Ok([kind |-> "Kafka",
                  cluster |-> CHOOSE a \in source.authority : TRUE,
                  topic |-> source.path,
                  ordering_key_format |-> "Default"])
    ELSE Err("InvalidSourceScheme", [uri |-> source])

(* updater.rs:311-357 *)
ParseSink(comps, sink) ==
    IF sink.scheme = "component"
    THEN IF sink.authority = {}
         THEN Err("InvalidComponentSinkAuthority", [uri |-> sink])
         ELSE LET component_name == CHOOSE a \in sink.authority : TRUE
                  handler_name == sink.path
              IN  IF component_name \notin DOMAIN comps
                  THEN Err("SinkComponentNotFound", [uri |-> sink])
                  ELSE IF handler_name \notin DOMAIN comps[component_name].handlers
                  THEN Err("SinkComponentNotFound", [uri |-> sink])
                  ELSE Ok([kind |-> "Component",
                           name |-> component_name,
                           handler |-> handler_name,
                           ty |-> IF comps[component_name].ty = "VirtualObject"
                                  THEN [kind |-> "VirtualObject", ordering_key_is_key |-> FALSE]
                                  ELSE [kind |-> "Service", ordering_key_is_key |-> FALSE]])
    ELSE Err("InvalidSinkScheme", [uri |-> sink])

(* updater.rs:387-402: the schemas of a component after modify_component *)
ModifiedSchemas(schemas, public) ==
    [schemas EXCEPT
        !.location.public = public,
        !.handlers = [h \in DOMAIN schemas.handlers |->
                        [schemas.handlers[h] EXCEPT !.target_meta.public = public]]]

(* updater.rs:390-399: modify_component sets the flag when a field changed *)
ModifyChanges(schemas, public) ==
    \/ schemas.location.public # public
    \/ \E h \in DOMAIN schemas.handlers : schemas.handlers[h].target_meta.public # public

(* Mutant: removing a deployment leaves every component in place *)
ComponentsAfterRemove_KeepsAll(comps, deployment) == comps

(* Mutant: removing a deployment deletes its components whatever their revision *)
ComponentsAfterRemove_ByName(comps, deployment) ==
    MapRemoveAll(comps, {c.name : c \in deployment.components})

(* updater.rs:245-260: the components left after removing a deployment *)
ComponentsAfterRemove(comps, deployment) ==
    MapRemoveAll(comps,
        {m.name : m \in {c \in deployment.components :
                            /\ c.name \in DOMAIN comps
                            /\ comps[c.name].revision = c.revision}})

-----------------------------------------------------------------------------
(* Partition leadership: bounds and initial state *)

MaxTransitions == 3

MaxEpoch == 2

MaxInvoked == 1

MaxInstances == 2

(* FollowerState.channel_size *)
ChannelSize == 1

(* Longest argument of handle_actions *)
MaxBatch == 2

(* Number of handle_actions calls *)
MaxBatches == 2

(* Number of timer keys *)
MaxTimers == 2

LeaderEpochs == 1..MaxEpoch

(* The hint channel of a new shuffle *)
NoHints == [held |-> 0, lost |-> 0]

(* No transition is in progress *)
Idle == [op |-> "none", leader_epoch |-> 0, then_lead |-> FALSE,
         resumed |-> 0, abort |-> "none", shuffle_handle |-> {}]

(* LeadershipState::follower: the state after construction; the invoker is  *)
(* running, it has no partition registered and the task center has no task *)
InitLeadership ==
    /\ leadership = "Follower"
    /\ leader_state = {}
    /\ pc = "idle"
    /\ call = Idle
    /\ tasks = <<>>
    /\ objects = {}
    /\ invoker = [running |-> TRUE, partitions |-> {}, invocations |-> {}]
    /\ shutdown = FALSE
    /\ events = <<>>
    /\ instance = 1
    /\ transitions = 0
    /\ actions = <<>>
    /\ applied = <<>>
    /\ batches = 0
    /\ ingress = [pending |-> 0, sent |-> 0, failed |-> 0, dropped |-> 0]
    /\ fired = [leader_epoch |-> 0, stored |-> {}, value |-> {}]
    /\ timers = {}
    /\ hints = NoHints
    /\ effects = 0
    /\ stream = "Follower"

-----------------------------------------------------------------------------
(* State machine *)

Observing == steps + 1 = MaxSteps

NoCall == [op |-> "none", args |-> [none |-> TRUE], result |-> Ok({})]

Catalog ==
    [deployments |-> deployments, components |-> components,
     subscriptions |-> subscriptions, version |-> version, modified |-> modified]

Init ==
    /\ deployments = EmptyMap
    /\ components = EmptyMap
    /\ subscriptions = EmptyMap
    /\ version = 0
    /\ modified = FALSE
    /\ session = "open"
    /\ base = 0
    /\ changed = FALSE
    /\ added = FALSE
    /\ called = FALSE
    /\ pre = [deployments |-> EmptyMap, components |-> EmptyMap,
              subscriptions |-> EmptyMap, version |-> 0, modified |-> FALSE]
    /\ last = NoCall
    /\ steps = 0
    /\ InitLeadership

(* A mutator call returns `result` and leaves the catalog d / c / s and the *)
(* flag m.  The history variables pre and last record one call of a        *)
(* behaviour in full: the observed call, which is its MaxSteps-th call.    *)
(* Every catalog reached by fewer calls is also reached by MaxSteps - 1    *)
(* calls, since removing an unknown deployment or subscription is a call   *)
(* that changes nothing, so every call on every such catalog is observed.  *)
Return(op, args, result, d, c, s, m) ==
    /\ deployments' = d
    /\ components' = c
    /\ subscriptions' = s
    /\ modified' = m
    /\ pre' = IF Observing THEN Catalog ELSE pre
    /\ last' = IF Observing THEN [op |-> op, args |-> args, result |-> result] ELSE last
    /\ changed' = (changed \/ d # deployments \/ c # components \/ s # subscriptions)
    /\ added' = (added \/ (op = "add_deployment" /\ result.ok))
    /\ called' = TRUE
    /\ steps' = steps + 1
    /\ UNCHANGED <<version, session, base>>
    /\ UNCHANGED leadershipVars

(* Mutant: the flag is set before the call is validated *)
Fail_SetsModified(op, args, error) ==
    Return(op, args, error, deployments, components, subscriptions, TRUE)

(* An error return: nothing is written *)
Fail(op, args, error) ==
    Return(op, args, error, deployments, components, subscriptions, modified)

CanCall == session = "open" /\ steps < MaxSteps

(* DeploymentId::new(): a fresh random identifier *)
NewDeploymentIds == DeploymentIds \ DOMAIN deployments

add_deployment(requested_deployment_id, deployment_metadata, comps, force) ==
    LET args == [requested_deployment_id |-> requested_deployment_id,
                 deployment_metadata |-> deployment_metadata,
                 components |-> comps,
                 force |-> force]
        proposed_components == ProposedComponents(comps)
    IN
    /\ CanCall
    /\ \E found \in Options(FoundExistingDeployment(deployments, requested_deployment_id,
                                                    deployment_metadata)) :
        IF \E existing \in found : IsIncorrectId(requested_deployment_id, existing)
        THEN Fail("add_deployment", args,
                  Err("IncorrectId", [requested |-> requested_deployment_id,
                                      existing |-> found]))
        ELSE IF IsOverride(found, force)
        THEN Fail("add_deployment", args, Err("Override", [deployment |-> found]))
        ELSE \E deployment_id \in (IF found # {} THEN found
                                   ELSE IF requested_deployment_id # {}
                                        THEN requested_deployment_id
                                        ELSE NewDeploymentIds) :
            LET components_to_remove ==
                    UNION {ComponentsToRemove(deployments[e], proposed_components) : e \in found}
                schema == [n \in DOMAIN proposed_components |->
                              ComponentSchema(components, n, proposed_components[n],
                                              deployment_id, force)]
                failing == {n \in DOMAIN proposed_components : ~schema[n].ok}
                components_to_add == [n \in DOMAIN proposed_components |-> schema[n].value]
            IN  IF failing # {}
                THEN \E n \in failing : Fail("add_deployment", args, schema[n])
                ELSE Return("add_deployment", args, Ok(deployment_id),
                            DeploymentsAfterAdd(deployments, deployment_id,
                                                deployment_metadata, components_to_add),
                            ComponentsAfterAdd(components, components_to_remove,
                                               components_to_add),
                            subscriptions,
                            TRUE)

(* Mutant: the flag is set whether or not a record was removed *)
remove_deployment_AlwaysModified(deployment_id) ==
    /\ CanCall
    /\ Return("remove_deployment", [deployment_id |-> deployment_id], Ok({}),
              MapRemove(deployments, deployment_id),
              IF deployment_id \in DOMAIN deployments
              THEN ComponentsAfterRemove(components, deployments[deployment_id])
              ELSE components,
              subscriptions,
              TRUE)

remove_deployment(deployment_id) ==
    /\ CanCall
    /\ IF deployment_id \in DOMAIN deployments
       THEN Return("remove_deployment", [deployment_id |-> deployment_id], Ok({}),
                   MapRemove(deployments, deployment_id),
                   ComponentsAfterRemove(components, deployments[deployment_id]),
                   subscriptions,
                   TRUE)
       ELSE Return("remove_deployment", [deployment_id |-> deployment_id], Ok({}),
                   deployments, components, subscriptions, modified)

(* SubscriptionId::default(): a fresh random identifier *)
NewSubscriptionIds == SubscriptionIds \ DOMAIN subscriptions

(* Mutant: a stored subscription is never found *)
SubscriptionExists_Never(subs, id) == FALSE

(* updater.rs:276: the id is already the key of a stored subscription *)
SubscriptionExists(subs, id) == id \in DOMAIN subs

(* The validator is an external collaborator: it accepts the subscription  *)
(* as it is or rejects it (updater.rs:359-366).                            *)
add_subscription(requested_id, source, sink, metadata) ==
    LET args == [id |-> requested_id, source |-> source, sink |-> sink,
                 metadata |-> metadata]
    IN
    /\ CanCall
    /\ \E id \in (IF requested_id # {} THEN requested_id ELSE NewSubscriptionIds) :
        IF SubscriptionExists(subscriptions, id)
        THEN Fail("add_subscription", args, Err("Override", [subscription |-> id]))
        ELSE LET src == ParseSource(source)
                 snk == ParseSink(components, sink)
             IN  IF ~src.ok THEN Fail("add_subscription", args, src)
                 ELSE IF ~snk.ok THEN Fail("add_subscription", args, snk)
                 ELSE \/ Fail("add_subscription", args,
                              Err("Validation", [subscription |-> id]))
                      \/ Return("add_subscription", args, Ok(id),
                                deployments, components,
                                MapInsert(subscriptions, id,
                                          [id |-> id, source |-> src.value,
                                           sink |-> snk.value, metadata |-> metadata]),
                                TRUE)

remove_subscription(subscription_id) ==
    /\ CanCall
    /\ IF subscription_id \in DOMAIN subscriptions
       THEN Return("remove_subscription", [subscription_id |-> subscription_id], Ok({}),
                   deployments, components, MapRemove(subscriptions, subscription_id), TRUE)
       ELSE Return("remove_subscription", [subscription_id |-> subscription_id], Ok({}),
                   deployments, components, subscriptions, modified)

modify_component(component_name, public) ==
    /\ CanCall
    /\ IF component_name \in DOMAIN components
       THEN Return("modify_component", [component_name |-> component_name, public |-> public],
                   Ok({}),
                   deployments,
                   MapInsert(components, component_name,
                             ModifiedSchemas(components[component_name], public)),
                   subscriptions,
                   modified \/ ModifyChanges(components[component_name], public))
       ELSE Return("modify_component", [component_name |-> component_name, public |-> public],
                   Ok({}), deployments, components, subscriptions, modified)

(* Mutant: into_inner increments the version whether or not the flag is set *)
IntoInnerVersion_AlwaysBumps(v, m) == increment_version(v)

(* Mutant: into_inner increments the version when the flag is not set *)
IntoInnerVersion_BumpsWhenUnmodified(v, m) == IF m THEN v ELSE increment_version(v)

(* updater.rs:53-59: the version of the catalog that into_inner returns *)
IntoInnerVersion(v, m) == IF m THEN increment_version(v) ELSE v

into_inner ==
    /\ session = "open"
    /\ version' = IntoInnerVersion(version, modified)
    /\ session' = "closed"
    /\ UNCHANGED <<deployments, components, subscriptions, modified, base, changed, added,
                   called, pre, last, steps>>
    /\ UNCHANGED leadershipVars

(* updater.rs:43-50: SchemaUpdater::from(schema_information) *)
from ==
    /\ session = "closed"
    /\ steps < MaxSteps
    /\ session' = "open"
    /\ modified' = FALSE
    /\ base' = version
    /\ changed' = FALSE
    /\ added' = FALSE
    /\ called' = FALSE
    /\ UNCHANGED <<deployments, components, subscriptions, version, pre, last, steps>>
    /\ UNCHANGED leadershipVars

DeploymentMetadata == {[address |-> e] : e \in Endpoints}

ComponentNames == {GREETER_SERVICE_NAME, ANOTHER_GREETER_SERVICE_NAME}

(* Any mutator call with arguments drawn from the given sets *)
Mutator(ids, metadata, proposals, subscription_ids, sources, sinks) ==
    \/ \E id \in Options(ids) \cup {{}}, m \in metadata, cs \in proposals, force \in BOOLEAN :
            add_deployment(id, m, cs, force)
    \/ \E id \in ids : remove_deployment(id)
    \/ \E id \in Options(subscription_ids) \cup {{}}, source \in sources, sink \in sinks :
            add_subscription(id, source, sink, EmptyMap)
    \/ \E id \in subscription_ids : remove_subscription(id)
    \/ \E name \in ComponentNames, public \in BOOLEAN : modify_component(name, public)

(* One updater session on the default catalog *)
Next ==
    Mutator(DeploymentIds, DeploymentMetadata, Proposals, SubscriptionIds, SourceUris, SinkUris)

Spec == Init /\ [][Next]_vars

(* Successive updater sessions: the catalog returned by into_inner is handed *)
(* to SchemaUpdater::from again.  Proposals hold at most one component.      *)
SessionProposals == SeqsUpTo(DiscoveredComponents, 1)

NextSession ==
    \/ Mutator(DeploymentIds, DeploymentMetadata, SessionProposals,
               SubscriptionIds, SourceUris, SinkUris)
    \/ into_inner
    \/ from

SpecSession == Init /\ [][NextSession]_vars

(* Successive updater sessions on a catalog that earlier sessions left: the *)
(* deployment 1 at the first endpoint has registered the Greeter service    *)
(* `revision` times (forced redeployments of the same proposal), so the     *)
(* service is at that revision.  The revisions cover a first registration   *)
(* and a counter one increment before it wraps.                             *)
RegisteredRevisions == {1, RevisionModulus - 1}

RegisteredCatalog(revision) ==
    LET deployment_id == 1
        deployment_metadata == [address |-> "http://localhost:9080"]
        handlers == DiscoverHandlers(greeter_service.component_type, greeter_service.handlers)
        schemas == [NewSchemas(greeter_service.component_type, handlers.value, deployment_id)
                        EXCEPT !.revision = revision]
        components_to_add == (GREETER_SERVICE_NAME :> schemas)
    IN  [deployments |-> DeploymentsAfterAdd(EmptyMap, deployment_id, deployment_metadata,
                                             components_to_add),
         components |-> ComponentsAfterAdd(EmptyMap, {}, components_to_add),
         subscriptions |-> EmptyMap,
         version |-> 1,
         modified |-> FALSE]

InitRegistered ==
    \E revision \in RegisteredRevisions :
        /\ deployments = RegisteredCatalog(revision).deployments
        /\ components = RegisteredCatalog(revision).components
        /\ subscriptions = RegisteredCatalog(revision).subscriptions
        /\ version = RegisteredCatalog(revision).version
        /\ modified = FALSE
        /\ session = "open"
        /\ base = RegisteredCatalog(revision).version
        /\ changed = FALSE
        /\ added = FALSE
        /\ called = FALSE
        /\ pre = RegisteredCatalog(revision)
        /\ last = NoCall
        /\ steps = 0
        /\ InitLeadership

SpecRegistered == InitRegistered /\ [][NextSession]_vars

(* Successive updater sessions on a catalog that an earlier session left    *)
(* with three calls: deployment 1 at the first endpoint registered the      *)
(* Greeter service (revision 1), deployment 2 at the second endpoint        *)
(* registered it again (revision 2, latest_deployment 2), and deployment 2  *)
(* was removed, which deleted the service.  The record of deployment 1      *)
(* still names the service at revision 1.                                   *)
OrphanedCatalog ==
    LET handlers == DiscoverHandlers(greeter_service.component_type, greeter_service.handlers)
        first  == (GREETER_SERVICE_NAME :>
                      NewSchemas(greeter_service.component_type, handlers.value, 1))
        deps1  == DeploymentsAfterAdd(EmptyMap, 1, [address |-> "http://localhost:9080"], first)
        comps1 == ComponentsAfterAdd(EmptyMap, {}, first)
        second == (GREETER_SERVICE_NAME :>
                      OverwrittenSchemas(comps1[GREETER_SERVICE_NAME],
                                         greeter_service.component_type, handlers.value, 2))
        deps2  == DeploymentsAfterAdd(deps1, 2, [address |-> "http://localhost:9081"], second)
        comps2 == ComponentsAfterAdd(comps1, {}, second)
    IN  [deployments |-> MapRemove(deps2, 2),
         components |-> ComponentsAfterRemove(comps2, deps2[2]),
         subscriptions |-> EmptyMap,
         version |-> 1,
         modified |-> FALSE]

InitOrphaned ==
    /\ deployments = OrphanedCatalog.deployments
    /\ components = OrphanedCatalog.components
    /\ subscriptions = OrphanedCatalog.subscriptions
    /\ version = OrphanedCatalog.version
    /\ modified = FALSE
    /\ session = "open"
    /\ base = OrphanedCatalog.version
    /\ changed = FALSE
    /\ added = FALSE
    /\ called = FALSE
    /\ pre = OrphanedCatalog
    /\ last = NoCall
    /\ steps = 0
    /\ InitLeadership

SpecOrphaned == InitOrphaned /\ [][NextSession]_vars

-----------------------------------------------------------------------------
(* Partition leadership state machine (leadership/mod.rs).  The partition   *)
(* processor task runs one transition at a time; a transition is split at   *)
(* its suspension points.  A transition takes the LeadershipState by value  *)
(* and returns it only in its Ok result.                                    *)

PartitionId == 0

PartitionLeaderEpoch(leader_epoch) ==
    [partition_id |-> PartitionId, leader_epoch |-> leader_epoch]

Event(ev, leader_epoch, ok) == [ev |-> ev, leader_epoch |-> leader_epoch, ok |-> ok]

(* The objects a LeaderState owns besides the shuffle task id *)
OwnedKinds == {"shuffle_hint_tx", "timer_service", "action_effect_handler",
               "actions_effects_tx"}

is_leader == leadership = "Leader"

(* Mutant: every state is taken for a follower *)
IsFollower_Always(l) == TRUE

(* mod.rs:125: if let LeadershipState::Follower { .. } = self *)
IsFollower(l) == l = "Follower"

AliveTasks == {t \in DOMAIN tasks : tasks[t].status # "finished"}

(* TaskCenter::cancel_task: a task that is still known to the task center   *)
(* is asked to stop and a handle to join it is returned; None otherwise.    *)
cancel_task(ts, task_id) ==
    IF task_id \in DOMAIN ts /\ ts[task_id].status # "finished"
    THEN [handle |-> {task_id}, tasks |-> [ts EXCEPT ![task_id].status = "cancelling"]]
    ELSE [handle |-> {}, tasks |-> ts]

(* TaskCenter::spawn_child: fails once the task center is shutting down *)
spawn_child(ts, leader_epoch) ==
    IF shutdown
    THEN Err("Shutdown", [none |-> TRUE])
    ELSE Ok(Append(ts, [leader_epoch |-> leader_epoch, status |-> "running",
                        result |-> "none"]))

(* Mutant: the join does not wait for the shuffle task *)
JoinCompleted_WithoutWaiting(ts, shuffle_handle) == TRUE

(* mod.rs:280-283: the OptionFuture of the shuffle handle is ready when the *)
(* handle is None or the task has terminated                                *)
JoinCompleted(ts, shuffle_handle) ==
    \A t \in shuffle_handle : ts[t].status = "finished"

(* Mutant: the join does not wait for the answer of the invoker *)
AbortCompleted_WithoutWaiting(abort) == TRUE

(* mod.rs:280-283: the future of abort_all_partition is ready *)
AbortCompleted(abort) == abort # "pending"

(* Mutant: the error of abort_all_partition is ignored *)
StepDownFailed_Ignored(abort) == FALSE

(* mod.rs:285: abort_result.map_err(Error::Invoker)? *)
StepDownFailed(abort) == abort = "err"

(* The transition in progress returns without the LeadershipState: an Err   *)
(* result or a panic.  Everything the transition owned is dropped.          *)
Lost(next_pc, evs) ==
    /\ leadership' = "None"
    /\ leader_state' = {}
    /\ objects' = {}
    /\ pc' = next_pc
    /\ call' = Idle
    /\ events' = events \o evs
    /\ timers' = {}
    /\ hints' = NoHints
    /\ effects' = 0
    /\ stream' = "None"

CanTransition ==
    /\ pc = "idle"
    /\ leadership # "None"
    /\ transitions < MaxTransitions

(* mod.rs:259-283: become_follower of a leader up to the join: the shuffle  *)
(* task is cancelled and abort_all_partition is issued                      *)
StepDown(op, leader_epoch, then_lead) ==
    LET ls == CHOOSE l \in leader_state : TRUE
        cancelled == cancel_task(tasks, ls.shuffle_task_id)
    IN  /\ tasks' = cancelled.tasks
        /\ call' = [op |-> op, leader_epoch |-> leader_epoch, then_lead |-> then_lead,
                    resumed |-> 0, abort |-> "pending",
                    shuffle_handle |-> cancelled.handle]
        /\ pc' = "join"
        /\ events' = events \o <<Event(op, leader_epoch, TRUE),
                                 Event("cancel_task", ls.leader_epoch,
                                       cancelled.handle # {})>>
        /\ transitions' = transitions + 1
        /\ UNCHANGED <<leadership, leader_state, objects, invoker, shutdown, instance>>
        /\ UNCHANGED termVars

(* mod.rs:120-135 *)
become_leader(leader_epoch) ==
    /\ CanTransition
    /\ IF IsFollower(leadership)
       THEN /\ pc' = "register"
            /\ call' = [Idle EXCEPT !.op = "become_leader", !.leader_epoch = leader_epoch]
            /\ events' = Append(events, Event("become_leader", leader_epoch, TRUE))
            /\ transitions' = transitions + 1
            /\ UNCHANGED <<leadership, leader_state, tasks, objects, invoker, shutdown,
                           instance>>
            /\ UNCHANGED termVars
       ELSE StepDown("become_leader", leader_epoch, TRUE)
    /\ UNCHANGED callVars
    /\ UNCHANGED updaterVars

(* Mutant: a follower that is asked to step down is handed a leader's stream *)
FollowerStream_OfLeader == "Leader"

(* mod.rs:301: ActionEffectStream::Follower *)
FollowerStream == "Follower"

(* mod.rs:258-303 *)
become_follower ==
    /\ CanTransition
    /\ IF is_leader
       THEN StepDown("become_follower", 0, FALSE)
       ELSE /\ events' = events \o <<Event("become_follower", 0, TRUE),
                                     Event("return", 0, TRUE)>>
            /\ transitions' = transitions + 1
            /\ stream' = FollowerStream
            /\ UNCHANGED <<leadership, leader_state, pc, call, tasks, objects, invoker,
                           shutdown, instance>>
            /\ UNCHANGED <<timers, hints, effects>>
    /\ UNCHANGED callVars
    /\ UNCHANGED updaterVars

(* mod.rs:282: the invoker answers abort_all_partition((partition_id,       *)
(* leader_epoch)): it drops the registration and the invocations of that    *)
(* key, or the call fails with NotRunning                                   *)
abort_all_partition ==
    /\ pc = "join"
    /\ call.abort = "pending"
    /\ LET ls == CHOOSE l \in leader_state : TRUE
           ple == PartitionLeaderEpoch(ls.leader_epoch)
       IN  /\ invoker' = IF invoker.running
                         THEN [invoker EXCEPT
                                 !.partitions = {r \in @ : r.ple # ple},
                                 !.invocations = {i \in @ : i.ple # ple}]
                         ELSE invoker
           /\ call' = [call EXCEPT !.abort = IF invoker.running THEN "ok" ELSE "err"]
           /\ events' = Append(events, Event("abort_all_partition", ls.leader_epoch,
                                             invoker.running))
    /\ UNCHANGED <<leadership, leader_state, pc, tasks, objects, shutdown, instance,
                   transitions>>
    /\ UNCHANGED <<callVars, termVars>>
    /\ UNCHANGED updaterVars

(* The shuffle task that was asked to stop terminates, gracefully or not *)
shuffle_terminates ==
    /\ \E t \in DOMAIN tasks, result \in {"ok", "failed"} :
        /\ tasks[t].status = "cancelling"
        /\ tasks' = [tasks EXCEPT ![t].status = "finished", ![t].result = result]
    /\ UNCHANGED <<leadership, leader_state, pc, call, objects, invoker, shutdown,
                   events, instance, transitions>>
    /\ UNCHANGED <<callVars, termVars>>
    /\ UNCHANGED updaterVars

(* A running shuffle task fails on its own and leaves the task center *)
shuffle_fails ==
    /\ \E t \in DOMAIN tasks :
        /\ tasks[t].status = "running"
        /\ tasks' = [tasks EXCEPT ![t].status = "finished", ![t].result = "failed"]
    /\ UNCHANGED <<leadership, leader_state, pc, call, objects, invoker, shutdown,
                   events, instance, transitions>>
    /\ UNCHANGED <<callVars, termVars>>
    /\ UNCHANGED updaterVars

(* mod.rs:280-302: both futures of the join are ready.  An abort error is   *)
(* returned first, a shuffle task that did not terminate gracefully panics, *)
(* otherwise the state is a follower again; become_leader then goes on with *)
(* unchecked_become_leader.                                                 *)
join_returns ==
    /\ pc = "join"
    /\ AbortCompleted(call.abort)
    /\ JoinCompleted(tasks, call.shuffle_handle)
    /\ LET ls == CHOOSE l \in leader_state : TRUE
           joined == Event("join", ls.leader_epoch, call.shuffle_handle # {})
       IN  IF StepDownFailed(call.abort)
           THEN Lost("idle", <<joined, Event("return", ls.leader_epoch, FALSE)>>)
           ELSE IF \E t \in call.shuffle_handle : tasks[t].result = "failed"
           THEN Lost("panicked", <<joined, Event("panic", ls.leader_epoch, FALSE)>>)
           ELSE /\ leadership' = "Follower"
                /\ leader_state' = {}
                /\ objects' = {}
                /\ pc' = IF call.then_lead THEN "register" ELSE "idle"
                /\ call' = IF call.then_lead
                           THEN [call EXCEPT !.abort = "none", !.shuffle_handle = {}]
                           ELSE Idle
                /\ events' = events \o <<joined, Event("return", ls.leader_epoch, TRUE)>>
                /\ timers' = {}
                /\ hints' = NoHints
                /\ effects' = 0
                /\ stream' = "Follower"
    /\ UNCHANGED <<tasks, invoker, shutdown, instance, transitions>>
    /\ UNCHANGED callVars
    /\ UNCHANGED updaterVars

(* Mutant: the error of register_partition is ignored *)
RegistrationFailed_Ignored(inv) == FALSE

(* mod.rs:224-232: register_partition(..).await.map_err(Error::Invoker)? *)
RegistrationFailed(inv) == ~inv.running

(* mod.rs:224-232: the invoker answers register_partition *)
register_partition ==
    /\ pc = "register"
    /\ IF ~RegistrationFailed(invoker)
       THEN /\ invoker' = IF invoker.running
                          THEN [invoker EXCEPT !.partitions =
                             @ \cup {[ple |-> PartitionLeaderEpoch(call.leader_epoch),
                                      by |-> instance]}]
                          ELSE invoker
            /\ pc' = "scan"
            /\ events' = Append(events, Event("register_partition", call.leader_epoch,
                                              invoker.running))
            /\ UNCHANGED <<leadership, leader_state, call, objects>>
            /\ UNCHANGED termVars
       ELSE /\ Lost("idle", <<Event("register_partition", call.leader_epoch, FALSE),
                              Event("return", call.leader_epoch, FALSE)>>)
            /\ UNCHANGED invoker
    /\ UNCHANGED <<tasks, shutdown, instance, transitions>>
    /\ UNCHANGED callVars
    /\ UNCHANGED updaterVars

(* mod.rs:155-208: after the scan nothing suspends any more: the timer      *)
(* service and the shuffle are built, the shuffle task is spawned and the   *)
(* leader state is returned                                                 *)
BecomeLeaderState ==
    LET spawned == spawn_child(tasks, call.leader_epoch)
        shuffle_task_id == Len(tasks) + 1
    IN  IF ~spawned.ok
        THEN /\ Lost("idle", <<Event("spawn", call.leader_epoch, FALSE),
                               Event("return", call.leader_epoch, FALSE)>>)
             /\ UNCHANGED <<tasks, invoker>>
        ELSE /\ tasks' = spawned.value
             /\ leadership' = "Leader"
             /\ leader_state' = {[leader_epoch |-> call.leader_epoch,
                                  shuffle_task_id |-> shuffle_task_id]}
             /\ objects' = objects \cup {[kind |-> k, shuffle_task_id |-> shuffle_task_id] :
                                            k \in OwnedKinds}
             /\ pc' = "idle"
             /\ call' = Idle
             /\ events' = events \o <<Event("spawn", call.leader_epoch, TRUE),
                                      Event("return", call.leader_epoch, TRUE)>>
             /\ timers' = {}
             /\ hints' = NoHints
             /\ effects' = 0
             /\ stream' = "Leader"
             /\ UNCHANGED invoker

(* mod.rs:234-253: one turn of the loop over the invocations that storage   *)
(* reports as invoked: the stream ends, yields a storage error, or yields   *)
(* an invocation, which is handed to the invoker                            *)
scan_invoked_invocations ==
    /\ pc = "scan"
    /\ \/ BecomeLeaderState
       \/ /\ Lost("idle", <<Event("scan", call.leader_epoch, FALSE),
                            Event("return", call.leader_epoch, FALSE)>>)
          /\ UNCHANGED <<tasks, invoker>>
       \/ /\ call.resumed < MaxInvoked
          /\ IF invoker.running
             THEN /\ invoker' = [invoker EXCEPT !.invocations =
                                   @ \cup {[ple |-> PartitionLeaderEpoch(call.leader_epoch),
                                            id |-> call.resumed + 1,
                                            journal |-> "NoCachedJournal"]}]
                  /\ call' = [call EXCEPT !.resumed = @ + 1]
                  /\ events' = Append(events, Event("invoke", call.leader_epoch, TRUE))
                  /\ UNCHANGED <<leadership, leader_state, pc, objects, tasks>>
                  /\ UNCHANGED termVars
             ELSE /\ Lost("idle", <<Event("invoke", call.leader_epoch, FALSE),
                                    Event("return", call.leader_epoch, FALSE)>>)
                  /\ UNCHANGED <<tasks, invoker>>
    /\ UNCHANGED <<shutdown, instance, transitions>>
    /\ UNCHANGED callVars
    /\ UNCHANGED updaterVars

(* mod.rs:93-114: a new LeadershipState for the partition, after a          *)
(* transition did not return the previous one                               *)
follower ==
    /\ pc = "idle"
    /\ leadership = "None"
    /\ instance < MaxInstances
    /\ leadership' = "Follower"
    /\ instance' = instance + 1
    /\ stream' = "Follower"
    /\ UNCHANGED <<leader_state, pc, call, tasks, objects, invoker, shutdown, events,
                   transitions>>
    /\ UNCHANGED <<callVars, timers, hints, effects>>
    /\ UNCHANGED updaterVars

(* The invoker service stops: every later call on its handle is NotRunning *)
invoker_stops ==
    /\ invoker.running
    /\ invoker' = [invoker EXCEPT !.running = FALSE]
    /\ UNCHANGED <<leadership, leader_state, pc, call, tasks, objects, shutdown, events,
                   instance, transitions>>
    /\ UNCHANGED <<callVars, termVars>>
    /\ UNCHANGED updaterVars

(* The task center starts to shut down: no child task can be spawned *)
task_center_shutdown ==
    /\ ~shutdown
    /\ shutdown' = TRUE
    /\ UNCHANGED <<leadership, leader_state, pc, call, tasks, objects, invoker, events,
                   instance, transitions>>
    /\ UNCHANGED <<callVars, termVars>>
    /\ UNCHANGED updaterVars

NextLeadership ==
    \/ \E leader_epoch \in LeaderEpochs : become_leader(leader_epoch)
    \/ become_follower
    \/ register_partition
    \/ scan_invoked_invocations
    \/ abort_all_partition
    \/ shuffle_terminates
    \/ join_returns
    \/ follower
    \/ shuffle_fails
    \/ invoker_stops
    \/ task_center_shutdown

SpecLeadership == Init /\ [][NextLeadership]_vars

-----------------------------------------------------------------------------
(* handle_actions (mod.rs:315-431) and send_ingress_message (452-509).  The *)
(* partition processor task applies the actions of a call one after the     *)
(* other; each turn of the loop is one step.                                *)

(* Action variants whose handling is a call on the invoker handle *)
InvokerActions == {"Invoke", "AckStoredEntry", "ForwardCompletion", "AbortInvocation"}

IngressActions == {"IngressResponse", "IngressSubmitNotification"}

ActionKinds ==
    InvokerActions \cup IngressActions \cup
        {"NewOutboxMessage", "RegisterTimer", "DeleteTimer",
         "ScheduleInvocationStatusCleanup"}

(* The arguments of handle_actions: sequences of at most MaxBatch actions *)
ActionLists ==
    UNION {[1..n -> ActionKinds] : n \in 0..MaxBatch}

(* The invocation and the timer the actions are about *)
InvocationId == MaxInvoked + 1

TimerKey == 1

(* Mutant: the epoch of the first term this processor led *)
CurrentEpoch_OfFirstTerm ==
    IF \E i \in DOMAIN events : events[i].ev = "spawn" /\ events[i].ok
    THEN events[CHOOSE i \in DOMAIN events :
                    /\ events[i].ev = "spawn" /\ events[i].ok
                    /\ \A j \in 1..(i - 1) : ~(events[j].ev = "spawn" /\ events[j].ok)
               ].leader_epoch
    ELSE 0

(* leader_state.leader_epoch of the state handle_actions is called on *)
CurrentEpoch ==
    IF leader_state = {} THEN 0 ELSE (CHOOSE l \in leader_state : TRUE).leader_epoch

(* Mutant: the actions are applied whatever the state is *)
AppliesActions_Always(l) == TRUE

(* mod.rs:319-326: only a leader applies the actions *)
AppliesActions(l) == l = "Leader"

(* Mutant: the actions are taken from the end of the sequence *)
ActionAt_Reversed(acts, i) == acts[Len(acts) + 1 - i]

(* mod.rs:327: for action in actions *)
ActionAt(acts, i) == acts[i]

(* mod.rs:360-372, 379-398: what an accepted call does to the invoker *)
InvokerAfter(inv, action, leader_epoch) ==
    LET invocation == [ple |-> PartitionLeaderEpoch(leader_epoch), id |-> InvocationId,
                       journal |-> "invoke_input_journal"]
    IN  CASE action = "Invoke" ->
                [inv EXCEPT !.invocations = @ \cup {invocation}]
          [] action = "AbortInvocation" ->
                [inv EXCEPT !.invocations =
                    {i \in @ : i.ple # invocation.ple \/ i.id # invocation.id}]
          [] OTHER -> inv

(* mod.rs:377-378: add_timer / remove_timer of the timer service *)
TimersAfter(ts, action) ==
    CASE action = "RegisterTimer" -> ts \cup {TimerKey}
      [] action = "DeleteTimer" -> ts \ {TimerKey}
      [] OTHER -> ts

(* HintSender::send: the hint is kept when the shuffle task runs and has    *)
(* room for it, and is lost otherwise; the sender learns nothing            *)
HintsAfter(h, consuming) ==
    IF consuming /\ h.held < ChannelSize
    THEN [h EXCEPT !.held = @ + 1]
    ELSE [h EXCEPT !.lost = @ + 1]

(* The shuffle task of the current leader state is running *)
ShuffleConsuming ==
    \E l \in leader_state :
        /\ l.shuffle_task_id \in DOMAIN tasks
        /\ tasks[l.shuffle_task_id].status = "running"

(* Mutant: the error of spawn_child is returned *)
send_ingress_message_ReturnsSpawnError(ing, spawned) ==
    [ingress |-> IF spawned.ok THEN [ing EXCEPT !.pending = @ + 1]
                 ELSE [ing EXCEPT !.dropped = @ + 1],
     ok |-> spawned.ok]

(* mod.rs:452-509: the message is handed to a new respond-to-ingress task,  *)
(* or dropped when the task cannot be spawned; the result is Ok either way  *)
send_ingress_message(ing, spawned) ==
    [ingress |-> IF spawned.ok THEN [ing EXCEPT !.pending = @ + 1]
                 ELSE [ing EXCEPT !.dropped = @ + 1],
     ok |-> TRUE]

(* Mutant: the handling of an ingress action awaits the network send *)
Suspends_OnNetworkSend(action, effs, strm) ==
    \/ action \in IngressActions
    \/ action = "ScheduleInvocationStatusCleanup" /\ strm # "closed" /\ effs >= ChannelSize

(* Mutant: the handling of NewOutboxMessage awaits room for the hint *)
Suspends_OnHint(action, effs, strm) ==
    \/ action = "NewOutboxMessage"
    \/ action = "ScheduleInvocationStatusCleanup" /\ strm # "closed" /\ effs >= ChannelSize

(* mod.rs:424-426: actions_effects_tx.send(..).await is pending while the   *)
(* channel is full and its receiver has not been dropped; handling any      *)
(* other action does not wait for anything but the answer of the invoker    *)
Suspends(action, effs, strm) ==
    action = "ScheduleInvocationStatusCleanup" /\ strm # "closed" /\ effs >= ChannelSize

(* mod.rs:424-426: a send that is not pending puts the effect into the      *)
(* channel, or fails, and is ignored, when the receiver has been dropped    *)
EffectsAfter(effs, strm) ==
    IF strm = "closed" THEN effs ELSE effs + 1

(* Mutant: the error of a call on the invoker is ignored *)
InvokerCallFailed_Ignored(inv) == FALSE

(* mod.rs:364-398: invoker_tx.<call>(..).await.map_err(Error::Invoker)? *)
InvokerCallFailed(inv) == ~inv.running

(* mod.rs:315-326: handle_actions is called with `acts`; a follower         *)
(* returns Ok at once                                                       *)
handle_actions(acts) ==
    /\ pc = "idle"
    /\ leadership # "None"
    /\ batches < MaxBatches
    /\ actions' = acts
    /\ batches' = batches + 1
    /\ IF AppliesActions(leadership)
       THEN /\ pc' = "handle_actions"
            /\ applied' = <<>>
       ELSE /\ pc' = pc
            /\ applied' = <<Event("return", CurrentEpoch, TRUE)>>
    /\ UNCHANGED <<leadership, leader_state, call, tasks, objects, invoker, shutdown,
                   events, instance, transitions, ingress, fired>>
    /\ UNCHANGED termVars
    /\ UNCHANGED updaterVars

(* mod.rs:327-346 with 350-431: one turn of the loop, or its end *)
handle_action ==
    /\ pc = "handle_actions"
    /\ IF Len(applied) >= Len(actions)
       THEN /\ pc' = "idle"
            /\ applied' = Append(applied, Event("return", CurrentEpoch, TRUE))
            /\ UNCHANGED <<invoker, ingress>>
            /\ UNCHANGED <<timers, hints, effects>>
       ELSE LET action == ActionAt(actions, Len(applied) + 1)
                done == Append(applied, Event(action, CurrentEpoch, TRUE))
            IN  IF action \in InvokerActions
                THEN /\ IF ~InvokerCallFailed(invoker)
                        THEN /\ invoker' = IF invoker.running
                                           THEN InvokerAfter(invoker, action, CurrentEpoch)
                                           ELSE invoker
                             /\ applied' = Append(applied, Event(action, CurrentEpoch,
                                                                 invoker.running))
                             /\ pc' = pc
                        ELSE /\ applied' = applied \o
                                    <<Event(action, CurrentEpoch, FALSE),
                                      Event("return", CurrentEpoch, FALSE)>>
                             /\ pc' = "idle"
                             /\ UNCHANGED invoker
                     /\ UNCHANGED <<ingress, timers, hints, effects>>
                ELSE IF Suspends(action, effects, stream)
                THEN /\ pc' = "send"
                     /\ UNCHANGED <<applied, invoker, ingress, timers, hints, effects>>
                ELSE IF action \in IngressActions
                THEN LET sent == send_ingress_message(ingress, spawn_child(tasks, CurrentEpoch))
                     IN  /\ ingress' = sent.ingress
                         /\ IF sent.ok
                            THEN applied' = done /\ pc' = pc
                            ELSE /\ applied' = applied \o
                                        <<Event(action, CurrentEpoch, FALSE),
                                          Event("return", CurrentEpoch, FALSE)>>
                                 /\ pc' = "idle"
                         /\ UNCHANGED <<invoker, timers, hints, effects>>
                ELSE /\ applied' = done
                     /\ pc' = pc
                     /\ timers' = TimersAfter(timers, action)
                     /\ hints' = IF action = "NewOutboxMessage"
                                 THEN HintsAfter(hints, ShuffleConsuming)
                                 ELSE hints
                     /\ effects' = IF action = "ScheduleInvocationStatusCleanup"
                                   THEN EffectsAfter(effects, stream)
                                   ELSE effects
                     /\ UNCHANGED <<invoker, ingress>>
    /\ UNCHANGED <<leadership, leader_state, call, tasks, objects, shutdown, events,
                   instance, transitions, actions, batches, stream, fired>>
    /\ UNCHANGED updaterVars

(* The partition processor takes an ActionEffect from its stream; it does   *)
(* so between its calls on the leadership state                             *)
poll_action_effects ==
    /\ pc = "idle"
    /\ stream = "Leader"
    /\ effects > 0
    /\ effects' = effects - 1
    /\ UNCHANGED <<leadership, leader_state, pc, call, tasks, objects, invoker, shutdown,
                   events, instance, transitions>>
    /\ UNCHANGED <<callVars, timers, hints, stream>>
    /\ UNCHANGED updaterVars

(* The partition processor drops the stream of the leader while it shuts    *)
(* down: the receiver of the actions_effects channel is gone                *)
drop_action_effect_stream ==
    /\ pc = "idle"
    /\ stream = "Leader"
    /\ stream' = "closed"
    /\ UNCHANGED <<leadership, leader_state, pc, call, tasks, objects, invoker, shutdown,
                   events, instance, transitions>>
    /\ UNCHANGED <<callVars, timers, hints, effects>>
    /\ UNCHANGED updaterVars

(* mod.rs:480-492: networking.send of a respond-to-ingress task completes;  *)
(* a failure is logged and the task ends with Ok                            *)
networking_send ==
    /\ ingress.pending > 0
    /\ \E ok \in BOOLEAN :
        ingress' = IF ok
                   THEN [ingress EXCEPT !.pending = @ - 1, !.sent = @ + 1]
                   ELSE [ingress EXCEPT !.pending = @ - 1, !.failed = @ + 1]
    /\ UNCHANGED <<leadership, leader_state, pc, call, tasks, objects, invoker, shutdown,
                   events, instance, transitions>>
    /\ UNCHANGED <<actions, applied, batches, fired>>
    /\ UNCHANGED termVars
    /\ UNCHANGED updaterVars

(* The running shuffle task consumes a hint *)
shuffle_consumes_hint ==
    /\ ShuffleConsuming
    /\ hints.held > 0
    /\ hints' = [hints EXCEPT !.held = @ - 1]
    /\ UNCHANGED <<leadership, leader_state, pc, call, tasks, objects, invoker, shutdown,
                   events, instance, transitions>>
    /\ UNCHANGED <<callVars, timers, effects, stream>>
    /\ UNCHANGED updaterVars

(* One term of leadership, during which actions are handled *)
NextActions ==
    \/ transitions = 0 /\ become_leader(1)
    \/ register_partition
    \/ scan_invoked_invocations
    \/ \E acts \in ActionLists : handle_actions(acts)
    \/ handle_action
    \/ poll_action_effects
    \/ drop_action_effect_stream
    \/ networking_send
    \/ shuffle_consumes_hint
    \/ shuffle_fails
    \/ invoker_stops
    \/ task_center_shutdown

SpecActions == Init /\ [][NextActions]_vars

(* Arguments of handle_actions made of calls on the invoker only *)
InvokerLists ==
    UNION {[1..n -> InvokerActions] : n \in 1..MaxBatch}

(* The leader epochs handed to become_leader so far *)
EpochsUsed ==
    {events[i].leader_epoch : i \in {j \in DOMAIN events : events[j].ev = "become_leader"}}

(* Terms of leadership with increasing leader epochs, hand-offs between     *)
(* them, and the invoker actions handled in them                            *)
NextHandOff ==
    \/ \E leader_epoch \in LeaderEpochs :
            /\ \A used \in EpochsUsed : used < leader_epoch
            /\ become_leader(leader_epoch)
    \/ become_follower
    \/ register_partition
    \/ scan_invoked_invocations
    \/ abort_all_partition
    \/ shuffle_terminates
    \/ join_returns
    \/ \E acts \in InvokerLists : handle_actions(acts)
    \/ handle_action

SpecHandOff == Init /\ [][NextHandOff]_vars

-----------------------------------------------------------------------------
(* run_timer (mod.rs:305-313) *)

TimerKeys == 1..MaxTimers

(* TimerService::next_timer: the earliest of the live timers, if any *)
next_timer(live) ==
    IF live = {} THEN {} ELSE {CHOOSE t \in live : \A u \in live : t <= u}

(* Mutant: the timers are looked at whatever the state is *)
HasTimerService_Always(l) == TRUE

(* mod.rs:306-311: only a leader has a timer service *)
HasTimerService(l) == l = "Leader"

(* mod.rs:305-313: the partition processor polls run_timer while `stored`   *)
(* are the timers of the partition in storage that are due.  A follower     *)
(* awaits future::pending(), which never yields; a leader awaits the next   *)
(* timer of its timer service, which holds the timers added to it and loads *)
(* the stored ones.  A call that yields nothing is dropped by the caller.   *)
run_timer(stored) ==
    /\ pc = "idle"
    /\ leadership # "None"
    /\ IF HasTimerService(leadership)
       THEN LET next == next_timer(timers \cup stored)
            IN  /\ fired' = [leader_epoch |-> CurrentEpoch, stored |-> stored,
                             value |-> next]
                /\ timers' = timers \ next
       ELSE /\ fired' = [leader_epoch |-> 0, stored |-> stored, value |-> {}]
            /\ timers' = timers
    /\ UNCHANGED <<leadership, leader_state, call, pc, tasks, objects, invoker, shutdown,
                   events, instance, transitions>>
    /\ UNCHANGED <<actions, applied, batches, ingress, hints, effects, stream>>
    /\ UNCHANGED updaterVars

(* Arguments of handle_actions made of timer actions only *)
TimerLists ==
    UNION {[1..n -> {"RegisterTimer", "DeleteTimer"}] : n \in 1..MaxBatch}

(* Terms of leadership in which timers are registered, deleted and polled *)
NextTimers ==
    \/ \E leader_epoch \in LeaderEpochs : become_leader(leader_epoch)
    \/ become_follower
    \/ register_partition
    \/ scan_invoked_invocations
    \/ abort_all_partition
    \/ shuffle_terminates
    \/ join_returns
    \/ \E acts \in TimerLists : handle_actions(acts)
    \/ handle_action
    \/ \E stored \in SUBSET TimerKeys : run_timer(stored)

SpecTimers == Init /\ [][NextTimers]_vars

-----------------------------------------------------------------------------
(* Vocabulary of the properties *)

ObservedAdd == last.op = "add_deployment"

Failed == ~last.result.ok

Succeeded == last.result.ok

(* The observed call left the catalog, the flag and the version as they were *)
NothingCommitted ==
    /\ deployments = pre.deployments
    /\ components = pre.components
    /\ subscriptions = pre.subscriptions
    /\ modified = pre.modified
    /\ version = pre.version

(* The proposal of the observed add_deployment, by component name *)
Proposed == ProposedComponents(last.args.components)

HandlerNames(component) == {component.handlers[i].name : i \in 1..Len(component.handlers)}

-----------------------------------------------------------------------------
(* C1 (as stated): a session returns version s.version + 1 if at least one  *)
(* of its mutations changed the catalog and s.version if none did, and no   *)
(* mutator bumps the version.                                               *)
C1_VersionBumpIffCatalogChanged ==
    /\ session = "open" => version = base
    /\ session = "closed" => version = base + (IF changed THEN 1 ELSE 0)

(* C1 (amended): a session returns version s.version + 1 if at least one of *)
(* its mutations changed the catalog or was a successful add_deployment (a  *)
(* forced redeployment that rewrites an identical record counts), however   *)
(* many mutations there were, and s.version otherwise; no mutator bumps the *)
(* version.                                                                 *)
C1_VersionBumpOncePerSession ==
    /\ session = "open" => version = base
    /\ session = "closed" => version = base + (IF changed \/ added THEN 1 ELSE 0)

(* A second session of two catalog changing calls has returned version 2 *)
C1_Witness ==
    /\ session = "closed"
    /\ base = 1
    /\ version = 2
    /\ changed
    /\ steps = MaxSteps

(* C2: an add_deployment or add_subscription that returns an error commits  *)
(* nothing: deployments, components (with every revision), subscriptions    *)
(* and the modified flag are as before the call, and a session in which     *)
(* nothing else was modified finalizes with the version it started with.    *)
C2_ErrorCommitsNothing ==
    (last.op \in {"add_deployment", "add_subscription"} /\ Failed) =>
        /\ deployments = pre.deployments
        /\ components = pre.components
        /\ subscriptions = pre.subscriptions
        /\ modified = pre.modified
        /\ session = "open" => version = pre.version
        /\ session = "closed" => version = IntoInnerVersion(pre.version, pre.modified)
        /\ (session = "closed" /\ ~pre.modified) => version = base

(* The only call of a session on a catalog that holds a component was       *)
(* rejected for removed handlers, and the session has been finalized        *)
C2_Witness ==
    /\ ObservedAdd
    /\ Failed
    /\ last.result.err = "RemovedHandlers"
    /\ ~pre.modified
    /\ session = "closed"
    /\ version = pre.version

(* C3: after a successful add_deployment returning d, every proposed        *)
(* component is in `components` with latest_deployment = d, and the record  *)
(* stored under d lists exactly the proposed components at their current    *)
(* revisions.                                                               *)
C3_AddRegistersProposal ==
    (ObservedAdd /\ Succeeded) =>
        LET d == last.result.value
        IN  /\ d \in DOMAIN deployments
            /\ \A n \in DOMAIN Proposed :
                /\ n \in DOMAIN components
                /\ components[n].location.latest_deployment = d
            /\ deployments[d].components =
                 {[name |-> n, revision |-> components[n].revision] : n \in DOMAIN Proposed}

(* A second deployment registered an existing and a new component *)
C3_Witness ==
    /\ ObservedAdd
    /\ Succeeded
    /\ Cardinality(DOMAIN Proposed) = 2
    /\ \E n \in DOMAIN Proposed : n \in DOMAIN pre.components
    /\ \E n \in DOMAIN Proposed : n \notin DOMAIN pre.components
    /\ last.result.value \notin DOMAIN pre.deployments

(* C4: every component's latest_deployment is a stored deployment *)
C4_LatestDeploymentExists ==
    \A n \in DOMAIN components :
        components[n].location.latest_deployment \in DOMAIN deployments

(* A deployment was removed and a component it once registered survives *)
C4_Witness ==
    /\ last.op = "remove_deployment"
    /\ last.args.deployment_id \in DOMAIN pre.deployments
    /\ \E c \in pre.deployments[last.args.deployment_id].components :
            c.name \in DOMAIN components

(* C5: every (name, revision) listed in a stored deployment record either   *)
(* is in `components` at that revision, or the component has been           *)
(* superseded: it is in `components` at another revision under another      *)
(* deployment.                                                              *)
C5_SnapshotsCurrentOrSuperseded ==
    \A d \in DOMAIN deployments :
        \A c \in deployments[d].components :
            /\ c.name \in DOMAIN components
            /\ \/ components[c.name].revision = c.revision
               \/ /\ components[c.name].revision # c.revision
                  /\ components[c.name].location.latest_deployment # d

(* C6: after remove_deployment(d) of a stored deployment the record d is    *)
(* gone; no surviving component has latest_deployment = d unless d's        *)
(* snapshot of it has another revision; a component is deleted only if d    *)
(* snapshotted it at its current revision, and every other component,       *)
(* one overwritten by a later deployment included, survives as it was.      *)
C6_RemoveDeletesMatchingRevisions ==
    (last.op = "remove_deployment" /\ last.args.deployment_id \in DOMAIN pre.deployments) =>
        LET d == last.args.deployment_id
            snapshot == pre.deployments[d].components
            matches(n) == \E c \in snapshot :
                            c.name = n /\ c.revision = pre.components[n].revision
        IN  /\ d \notin DOMAIN deployments
            /\ \A n \in DOMAIN components :
                 components[n].location.latest_deployment = d =>
                    \E c \in snapshot : c.name = n /\ c.revision # components[n].revision
            /\ \A n \in DOMAIN pre.components :
                 IF matches(n)
                 THEN n \notin DOMAIN components
                 ELSE n \in DOMAIN components /\ components[n] = pre.components[n]

(* The first of two deployments was removed: a component the second one     *)
(* overwrote survives at revision 2, a component only the first one had is  *)
(* gone                                                                     *)
C6_Witness ==
    /\ last.op = "remove_deployment"
    /\ last.args.deployment_id \in DOMAIN pre.deployments
    /\ \E c \in pre.deployments[last.args.deployment_id].components :
            /\ c.name \in DOMAIN components
            /\ c.revision = 1
            /\ components[c.name].revision = 2
            /\ components[c.name].location.latest_deployment # last.args.deployment_id
    /\ \E c \in pre.deployments[last.args.deployment_id].components :
            c.name \notin DOMAIN components

(* The observed add_deployment requests an id that is not stored while its  *)
(* endpoint is the one of a stored deployment                               *)
RequestedIdMismatch ==
    /\ ObservedAdd
    /\ \E r \in last.args.requested_deployment_id : r \notin DOMAIN pre.deployments
    /\ \E e \in DOMAIN pre.deployments :
            pre.deployments[e].metadata.address = last.args.deployment_metadata.address

ResolvesToExisting ==
    /\ ObservedAdd
    /\ \/ \E r \in last.args.requested_deployment_id : r \in DOMAIN pre.deployments
       \/ /\ last.args.requested_deployment_id = {}
          /\ \E e \in DOMAIN pre.deployments :
                pre.deployments[e].metadata.address = last.args.deployment_metadata.address

OmittedHandlers(n) == DOMAIN pre.components[n].handlers \ HandlerNames(Proposed[n])

OmitsHandlers(n) ==
    /\ ObservedAdd
    /\ n \in DOMAIN Proposed
    /\ n \in DOMAIN pre.components
    /\ OmittedHandlers(n) # {}

(* The observed add_deployment proposes the stored component n with another type *)
ChangesType(n) ==
    /\ ObservedAdd
    /\ n \in DOMAIN Proposed
    /\ n \in DOMAIN pre.components
    /\ pre.components[n].ty # Proposed[n].component_type

(* Every content type of the proposal parses *)
ContentTypesParse ==
    \A n \in DOMAIN Proposed : \A i \in 1..Len(Proposed[n].handlers) :
        /\ Proposed[n].handlers[i].input # "Invalid"
        /\ Proposed[n].handlers[i].output # "Invalid"

(* No proposed component other than n omits handlers or changes type *)
OnlyOffender(n) ==
    \A m \in DOMAIN Proposed \ {n} : ~OmitsHandlers(m) /\ ~ChangesType(m)

C11_RevisionIncrementsWrapping ==
    (ObservedAdd /\ Succeeded) =>
        /\ \A n \in DOMAIN Proposed :
              /\ n \in DOMAIN components
              /\ IF n \in DOMAIN pre.components
                 THEN components[n].revision =
                        (pre.components[n].revision + 1) % RevisionModulus
                 ELSE /\ components[n].revision = 1
                      /\ components[n].location.public = TRUE
        /\ \A n \in DOMAIN components \ DOMAIN Proposed :
              /\ n \in DOMAIN pre.components
              /\ components[n].revision = pre.components[n].revision

(* A redeployment took the revision of the Greeter service from the largest *)
(* value of the counter to 0, next to a component it did not propose        *)
C11_Witness ==
    /\ ObservedAdd
    /\ Succeeded
    /\ GREETER_SERVICE_NAME \in DOMAIN Proposed
    /\ GREETER_SERVICE_NAME \in DOMAIN pre.components
    /\ pre.components[GREETER_SERVICE_NAME].revision = RevisionModulus - 1
    /\ components[GREETER_SERVICE_NAME].revision = 0
    /\ DOMAIN components \ DOMAIN Proposed # {}

(* C12: a successful add_deployment leaves location.public of every         *)
(* component that existed before it as it was, so a component made private  *)
(* stays private when a later deployment, a forced redeployment of the same *)
(* deployment included, updates it.                                         *)
C12_AddKeepsPublicFlag ==
    (ObservedAdd /\ Succeeded) =>
        \A n \in DOMAIN pre.components \cap DOMAIN components :
            components[n].location.public = pre.components[n].location.public

(* A forced redeployment of its own deployment updated a private component *)
C12_Witness ==
    /\ ResolvesToExisting
    /\ last.args.force
    /\ Succeeded
    /\ \E n \in DOMAIN Proposed \cap DOMAIN pre.components :
            /\ ~pre.components[n].location.public
            /\ pre.components[n].location.latest_deployment = last.result.value
            /\ components[n].revision # pre.components[n].revision
            /\ ~components[n].location.public

(* C13: a successful forced add_deployment that resolves to an existing     *)
(* deployment returns the id of that deployment and adds no record; every   *)
(* component listed in the record it replaces and absent from the proposal  *)
(* is removed from `components`, and every proposed component is present    *)
(* afterwards under that id.                                                *)
C13_ForcedRedeployReplaces ==
    (ResolvesToExisting /\ last.args.force /\ Succeeded) =>
        LET d == last.result.value
        IN  /\ d \in DOMAIN pre.deployments
            /\ \/ last.args.requested_deployment_id = {d}
               \/ /\ last.args.requested_deployment_id = {}
                  /\ pre.deployments[d].metadata.address =
                        last.args.deployment_metadata.address
            /\ DOMAIN deployments = DOMAIN pre.deployments
            /\ \A c \in pre.deployments[d].components :
                  c.name \notin DOMAIN Proposed => c.name \notin DOMAIN components
            /\ \A n \in DOMAIN Proposed :
                  /\ n \in DOMAIN components
                  /\ components[n].location.latest_deployment = d

(* A forced redeployment dropped one component of its deployment and kept   *)
(* another                                                                  *)
C13_Witness ==
    /\ ResolvesToExisting
    /\ last.args.force
    /\ Succeeded
    /\ \E c \in pre.deployments[last.result.value].components :
            /\ c.name \notin DOMAIN Proposed
            /\ c.name \in DOMAIN pre.components
            /\ c.name \notin DOMAIN components
    /\ \E c \in pre.deployments[last.result.value].components :
            c.name \in DOMAIN Proposed

(* C14: add_deployment whose proposal holds two components of the same      *)
(* fully qualified component name returns an error and commits nothing.     *)
C14_DuplicateNamesRejected ==
    (ObservedAdd /\ Len(last.args.components) > Cardinality(DOMAIN Proposed)) =>
        /\ Failed
        /\ NothingCommitted

(* C15: SchemaUpdater::from(s).into_inner() with no mutator call in between *)
(* returns s: the version is the one handed to from, and neither from nor   *)
(* into_inner of such a session touches deployments, components or          *)
(* subscriptions.                                                           *)
C15_NoMutationRoundTrip ==
    /\ [](session = "closed" /\ ~called => version = base)
    /\ [][~called' => /\ deployments' = deployments
                      /\ components' = components
                      /\ subscriptions' = subscriptions]_vars

(* A session on a catalog of version 1 that holds a component was closed    *)
(* without any mutator call                                                 *)
C15_Witness ==
    /\ session = "closed"
    /\ ~called
    /\ base = 1
    /\ version = 1
    /\ components # EmptyMap

(* C16: a successful add_subscription returning i leaves deployments and    *)
(* components alone and adds exactly the key i, which was not stored, to    *)
(* subscriptions; remove_subscription(i) leaves deployments and components  *)
(* alone and deletes exactly the key i.  So the second after the first      *)
(* yields the deployments, components and subscriptions of the start.       *)
C16_AddThenRemoveSubscription ==
    /\ (last.op = "add_subscription" /\ Succeeded) =>
            LET i == last.result.value
            IN  /\ deployments = pre.deployments
                /\ components = pre.components
                /\ i \notin DOMAIN pre.subscriptions
                /\ DOMAIN subscriptions = DOMAIN pre.subscriptions \cup {i}
                /\ \A j \in DOMAIN pre.subscriptions :
                        subscriptions[j] = pre.subscriptions[j]
    /\ last.op = "remove_subscription" =>
            LET i == last.args.subscription_id
            IN  /\ deployments = pre.deployments
                /\ components = pre.components
                /\ DOMAIN subscriptions = DOMAIN pre.subscriptions \ {i}
                /\ \A j \in DOMAIN subscriptions :
                        subscriptions[j] = pre.subscriptions[j]

(* The subscription added on a catalog with a deployment was removed again: *)
(* the catalog is the one before the subscription was added                 *)
C16_Witness ==
    /\ last.op = "remove_subscription"
    /\ last.args.subscription_id \in DOMAIN pre.subscriptions
    /\ subscriptions = EmptyMap
    /\ components # EmptyMap
    /\ deployments # EmptyMap

(* C17: modify_component(name, public) changes the catalog and sets the     *)
(* modified flag only if the component exists and its location.public       *)
(* differs from `public`; then location.public and every handler's          *)
(* target_meta.public become `public`.  Otherwise nothing changes and the   *)
(* flag is not set.                                                         *)
C17_ModifyOnlyIfPublicDiffers ==
    last.op = "modify_component" =>
        LET n == last.args.component_name
            public == last.args.public
        IN  IF n \in DOMAIN pre.components /\ pre.components[n].location.public # public
            THEN /\ modified
                 /\ components[n].location.public = public
                 /\ \A h \in DOMAIN components[n].handlers :
                        components[n].handlers[h].target_meta.public = public
            ELSE /\ deployments = pre.deployments
                 /\ components = pre.components
                 /\ subscriptions = pre.subscriptions
                 /\ modified = pre.modified

(* C18: remove_deployment(id) and remove_subscription(id) for an id that is *)
(* not stored change nothing and leave the modified flag as it was; for a   *)
(* stored id the record is removed and the flag is set.                     *)
C18_RemoveSetsModifiedIffRemoved ==
    /\ last.op = "remove_deployment" =>
            LET id == last.args.deployment_id
            IN  IF id \in DOMAIN pre.deployments
                THEN id \notin DOMAIN deployments /\ modified
                ELSE /\ deployments = pre.deployments
                     /\ components = pre.components
                     /\ subscriptions = pre.subscriptions
                     /\ modified = pre.modified
    /\ last.op = "remove_subscription" =>
            LET id == last.args.subscription_id
            IN  IF id \in DOMAIN pre.subscriptions
                THEN id \notin DOMAIN subscriptions /\ modified
                ELSE /\ deployments = pre.deployments
                     /\ components = pre.components
                     /\ subscriptions = pre.subscriptions
                     /\ modified = pre.modified

(* The first call that changed anything in a session removed a stored       *)
(* deployment and set the flag                                              *)
C18_Witness ==
    /\ last.op = "remove_deployment"
    /\ last.args.deployment_id \in DOMAIN pre.deployments
    /\ ~pre.modified
    /\ modified

(* C19: whenever the leadership state is not Leader, in particular after    *)
(* become_follower has returned from a Leader state and while a following   *)
(* become_leader registers and resumes invocations, no shuffle task is      *)
(* alive (the one of the term that ended has been cancelled and joined) and *)
(* no object owned by a leader term (shuffle hint sender, timer service,    *)
(* action-effect handler, action-effects sender) is live.                   *)
C19_NoOwnedTaskAfterStepDown ==
    /\ ~is_leader => (AliveTasks = {} /\ objects = {})
    /\ pc \in {"register", "scan"} => AliveTasks = {}

(* A become_leader on a leader has joined the cancelled shuffle task of the *)
(* term that ended and is now resuming invocations for the new term         *)
C19_Witness ==
    /\ pc = "scan"
    /\ call.then_lead
    /\ Len(tasks) = 1
    /\ tasks[1].status = "finished"
    /\ tasks[1].result = "ok"
    /\ \E i \in 1..Len(events) : events[i].ev = "join" /\ events[i].ok
    /\ objects = {}

(* C20: at every moment each LeadershipState value has at most one          *)
(* (partition_id, leader_epoch) registration active at the invoker          *)
(* (registered by it and not aborted by abort_all_partition since) and at   *)
(* most one shuffle task of the partition is alive.                         *)
C20_AtMostOneLeader ==
    /\ \A i \in 1..MaxInstances :
            Cardinality({r \in invoker.partitions : r.by = i}) <= 1
    /\ Cardinality(AliveTasks) <= 1

(* The leader of epoch 1 has handed over to epoch 2: the registration of    *)
(* epoch 2 is the only one and the second shuffle task the only one alive   *)
C20_Witness ==
    /\ is_leader
    /\ pc = "idle"
    /\ leader_state = {[leader_epoch |-> 2, shuffle_task_id |-> 2]}
    /\ tasks[1].status = "finished"
    /\ tasks[1].leader_epoch = 1
    /\ AliveTasks = {2}
    /\ invoker.partitions = {[ple |-> PartitionLeaderEpoch(2), by |-> 1]}

(* The events of the transition made last, from the event of its call on *)
CallStart ==
    CHOOSE i \in 1..Len(events) :
        /\ events[i].ev \in {"become_leader", "become_follower"}
        /\ \A j \in (i + 1)..Len(events) :
                events[j].ev \notin {"become_leader", "become_follower"}

LastEvent == events[Len(events)]

(* The step returns an error from the become_leader in progress *)
BecomeLeaderFails ==
    /\ call.op = "become_leader"
    /\ pc # "idle"
    /\ pc' = "idle"
    /\ events'[Len(events')].ev = "return"
    /\ ~events'[Len(events')].ok

(* C21: when become_leader fails after the invoker has accepted the         *)
(* registration (the scan, an invoke or the spawn of the shuffle fails),    *)
(* the registration and the resumed invocations of that (partition_id,      *)
(* leader_epoch) are aborted at the invoker before it returns, and no       *)
(* shuffle task is left running.                                            *)
C21_FailedBecomeLeaderReleases ==
    [][(BecomeLeaderFails /\ pc = "scan") =>
            /\ \A r \in invoker'.partitions :
                    r.ple # PartitionLeaderEpoch(call.leader_epoch)
            /\ \A i \in invoker'.invocations :
                    i.ple # PartitionLeaderEpoch(call.leader_epoch)
            /\ \A t \in DOMAIN tasks' : tasks'[t].status = "finished"
      ]_vars

(* C22: when become_leader returns an error, the leadership state is        *)
(* Follower, so that become_leader can be attempted on it again.            *)
C22_ErrorLeavesFollower ==
    [][BecomeLeaderFails => leadership' = "Follower"]_vars

(* C23: become_follower of a leader of epoch e cancels the shuffle task and *)
(* calls abort_all_partition with (partition_id, e); it returns only after  *)
(* the abort call has completed and the shuffle task has been joined,       *)
(* whichever of the two finishes first, and when the abort call failed it   *)
(* returns the error.                                                       *)
C23_StepDownWaitsForBoth ==
    [][/\ (pc # "join" /\ pc' = "join") =>
            \A l \in leader_state :
                /\ l.shuffle_task_id \in DOMAIN tasks'
                /\ tasks'[l.shuffle_task_id].status # "running"
                /\ call'.abort = "pending"
       /\ (pc = "join" /\ call.abort = "pending" /\ call'.abort # "pending") =>
            \A l \in leader_state :
                /\ events'[Len(events')].ev = "abort_all_partition"
                /\ events'[Len(events')].leader_epoch = l.leader_epoch
       /\ (pc = "join" /\ pc' # "join") =>
            /\ call.abort # "pending"
            /\ \A l \in leader_state : tasks[l.shuffle_task_id].status = "finished"
            /\ call.abort = "err" =>
                    /\ leadership' = "None"
                    /\ events'[Len(events')].ev = "return"
                    /\ ~events'[Len(events')].ok
      ]_vars

(* A become_follower whose abort_all_partition failed after the shuffle     *)
(* task had terminated has joined the task and returned the error           *)
C23_Witness ==
    /\ events # <<>>
    /\ events[CallStart].ev = "become_follower"
    /\ Len(events) = CallStart + 4
    /\ events[CallStart + 1] = Event("cancel_task", 1, TRUE)
    /\ events[CallStart + 2] = Event("abort_all_partition", 1, FALSE)
    /\ events[CallStart + 3] = Event("join", 1, TRUE)
    /\ events[CallStart + 4] = Event("return", 1, FALSE)
    /\ tasks[1].status = "finished"
    /\ leadership = "None"

(* The steps that belong to the new term of a become_leader *)
NewTermSteps == {"register_partition", "scan", "invoke", "spawn"}

(* C24: in a become_leader called on a leader of epoch e1, every step of    *)
(* the new term (register_partition, scan, invoke, spawn) comes after the   *)
(* become_follower of e1 has completed: its abort_all_partition(pid, e1)    *)
(* succeeded, its shuffle task was joined and it returned Ok.  When that    *)
(* become_follower fails, the call has no step of the new term.             *)
C24_HandOffStepsDownFirst ==
    (events # <<>> /\ events[CallStart].ev = "become_leader"
        /\ Len(events) > CallStart /\ events[CallStart + 1].ev = "cancel_task") =>
        LET e1 == events[CallStart + 1].leader_epoch
            e2 == events[CallStart].leader_epoch
            segment == (CallStart + 1)..Len(events)
        IN  \A j \in segment :
                events[j].ev \in NewTermSteps =>
                    /\ events[j].leader_epoch = e2
                    /\ \E a, b, c \in segment :
                        /\ a < b /\ b < c /\ c < j
                        /\ events[a] = Event("abort_all_partition", e1, TRUE)
                        /\ events[b].ev = "join"
                        /\ events[b].leader_epoch = e1
                        /\ events[c] = Event("return", e1, TRUE)
                    /\ \A t \in DOMAIN tasks :
                            tasks[t].leader_epoch = e1 /\ t < Len(tasks) =>
                                tasks[t].status = "finished"

(* The leader of epoch 1 was asked to lead epoch 2: it stepped down first   *)
(* and has registered the partition for epoch 2                             *)
C24_Witness ==
    /\ events # <<>>
    /\ events[CallStart] = Event("become_leader", 2, TRUE)
    /\ Len(events) = CallStart + 5
    /\ events[CallStart + 1] = Event("cancel_task", 1, TRUE)
    /\ events[CallStart + 2] = Event("abort_all_partition", 1, TRUE)
    /\ events[CallStart + 3] = Event("join", 1, TRUE)
    /\ events[CallStart + 4] = Event("return", 1, TRUE)
    /\ events[CallStart + 5] = Event("register_partition", 2, TRUE)
    /\ pc = "scan"

(* The step is a step of the partition processor task in which it handles  *)
(* an action of one of `kinds` of the handle_actions call in progress       *)
Handles(kinds) ==
    /\ pc = "handle_actions"
    /\ Len(applied) < Len(actions)
    /\ actions[Len(applied) + 1] \in kinds
    /\ (pc' # pc \/ applied' # applied)

(* The step completes the action it handles with Ok and handle_actions goes *)
(* on with the next action without having waited                            *)
CompletesWithoutWaiting ==
    /\ pc' = "handle_actions"
    /\ applied' = Append(applied, Event(actions[Len(applied) + 1], CurrentEpoch, TRUE))

(* C25: handling ScheduleInvocationStatusCleanup never blocks               *)
(* handle_actions: whether the receiver of the action-effects channel is    *)
(* closed or the channel already holds channel_size undelivered effects,    *)
(* the action completes with Ok without waiting.                            *)
C25_CleanupNeverBlocks ==
    [][Handles({"ScheduleInvocationStatusCleanup"}) =>
            /\ CompletesWithoutWaiting
            /\ pc' # "send"
      ]_vars

(* C26: handle_actions called on a follower is a no-op for every action     *)
(* list: no invoker call, no shuffle hint, no timer added or removed, no    *)
(* ingress message, no action effect, and the result is Ok.                 *)
C26_FollowerIgnoresActions ==
    [][(batches' = batches + 1 /\ leadership = "Follower") =>
            /\ invoker' = invoker
            /\ hints' = hints
            /\ timers' = timers
            /\ ingress' = ingress
            /\ effects' = effects
            /\ events' = events
            /\ tasks' = tasks
            /\ leadership' = "Follower"
            /\ pc' = "idle"
            /\ applied' = <<Event("return", 0, TRUE)>>
      ]_vars

(* A follower was handed an invoke and an ingress response and returned Ok  *)
C26_Witness ==
    /\ leadership = "Follower"
    /\ pc = "idle"
    /\ actions = <<"Invoke", "IngressResponse">>
    /\ applied = <<Event("return", 0, TRUE)>>
    /\ invoker.invocations = {}
    /\ ingress.pending + ingress.dropped = 0

(* The entries of `applied` that stand for actions: all but a final return *)
AppliedActions ==
    SelectSeq(applied, LAMBDA a : a.ev # "return")

(* The latest handle_actions call was made on a leader *)
CalledOnLeader ==
    /\ batches > 0
    /\ (applied = <<>> \/ applied[1].leader_epoch # 0)

(* C27: a leader applies the actions in the order of the sequence handed to *)
(* handle_actions, one at a time: what the call has done so far is what the *)
(* first actions of the sequence do, in their order, all of them with Ok    *)
(* but at most the last one, and the call returns Ok only after the last    *)
(* action of the sequence.                                                  *)
C27_ActionsAppliedInOrder ==
    CalledOnLeader =>
        /\ Len(AppliedActions) <= Len(actions)
        /\ \A k \in 1..Len(AppliedActions) :
                /\ applied[k].ev = actions[k]
                /\ applied[k].leader_epoch = applied[1].leader_epoch
                /\ pc \in {"handle_actions", "send"} =>
                        applied[k].leader_epoch = CurrentEpoch
                /\ ~applied[k].ok => k = Len(AppliedActions)
        /\ \A k \in 1..Len(applied) :
                applied[k].ev = "return" =>
                    /\ k = Len(applied)
                    /\ pc \notin {"handle_actions", "send"}
                    /\ applied[k].ok => Len(AppliedActions) = Len(actions)

(* A leader registered a timer and then deleted it: no timer is left *)
C27_Witness ==
    /\ leadership = "Leader"
    /\ pc = "idle"
    /\ actions = <<"RegisterTimer", "DeleteTimer">>
    /\ applied = <<Event("RegisterTimer", 1, TRUE), Event("DeleteTimer", 1, TRUE),
                   Event("return", 1, TRUE)>>
    /\ timers = {}

(* C28: once the task center is shutting down, handling an IngressResponse  *)
(* or IngressSubmitNotification drops the message, completes with Ok and    *)
(* handle_actions goes on with the rest of the sequence; a network send     *)
(* that fails in a respond-to-ingress task changes nothing for              *)
(* handle_actions either, and no ingress action ever completes with an      *)
(* error.                                                                   *)
C28_IngressDropIsSilent ==
    /\ [][(Handles(IngressActions) /\ shutdown) =>
                /\ CompletesWithoutWaiting
                /\ ingress' = [ingress EXCEPT !.dropped = @ + 1]
          ]_vars
    /\ [][(ingress'.failed # ingress.failed) =>
                /\ pc' = pc
                /\ applied' = applied
                /\ leadership' = leadership
          ]_vars
    /\ [](\A k \in 1..Len(applied) : applied[k].ev \in IngressActions => applied[k].ok)

(* During shutdown a leader was handed an ingress response and a timer: the *)
(* response was dropped, the timer registered and the call returned Ok      *)
C28_Witness ==
    /\ shutdown
    /\ pc = "idle"
    /\ batches = 1
    /\ actions = <<"IngressResponse", "RegisterTimer">>
    /\ applied = <<Event("IngressResponse", 1, TRUE), Event("RegisterTimer", 1, TRUE),
                   Event("return", 1, TRUE)>>
    /\ ingress = [pending |-> 0, sent |-> 0, failed |-> 0, dropped |-> 1]
    /\ timers = {TimerKey}

(* C29: handling an IngressResponse or IngressSubmitNotification does not   *)
(* wait for networking.send: the action completes while the send of its     *)
(* message is still pending in a task of its own.                           *)
C29_IngressNeverBlocks ==
    [][(Handles(IngressActions) /\ ~shutdown) =>
            /\ CompletesWithoutWaiting
            /\ ingress' = [ingress EXCEPT !.pending = @ + 1]
      ]_vars

(* handle_actions has returned Ok while the sends of both its ingress       *)
(* messages are still pending                                               *)
C29_Witness ==
    /\ pc = "idle"
    /\ batches = 1
    /\ actions = <<"IngressSubmitNotification", "IngressResponse">>
    /\ applied[Len(applied)] = Event("return", 1, TRUE)
    /\ ingress = [pending |-> 2, sent |-> 0, failed |-> 0, dropped |-> 0]

(* C30: handling NewOutboxMessage never blocks handle_actions and never     *)
(* fails it: the hint is handed over when the shuffle has room for it and   *)
(* is lost otherwise, and the action completes with Ok in both cases.       *)
C30_HintNeverBlocks ==
    [][Handles({"NewOutboxMessage"}) =>
            /\ CompletesWithoutWaiting
            /\ hints'.held + hints'.lost = hints.held + hints.lost + 1
            /\ hints'.held <= ChannelSize
            /\ ~ShuffleConsuming => hints'.lost = hints.lost + 1
      ]_vars

(* A hint was lost because the shuffle had not consumed the previous one,   *)
(* and handle_actions returned Ok                                           *)
C30_Witness ==
    /\ pc = "idle"
    /\ batches = 1
    /\ actions = <<"NewOutboxMessage", "NewOutboxMessage">>
    /\ applied = <<Event("NewOutboxMessage", 1, TRUE), Event("NewOutboxMessage", 1, TRUE),
                   Event("return", 1, TRUE)>>
    /\ hints = [held |-> ChannelSize, lost |-> 1]
    /\ ShuffleConsuming

(* The step is a call of become_follower on a follower *)
StepDownOfFollower ==
    /\ pc = "idle"
    /\ leadership = "Follower"
    /\ Len(events') > Len(events)
    /\ events'[Len(events) + 1].ev = "become_follower"

(* C32: become_follower called on a follower is a no-op: no invoker call,   *)
(* no task cancelled, and it returns Ok with the same follower state and    *)
(* the stream of a follower.                                                *)
C32_StepDownOfFollowerIsNoOp ==
    [][StepDownOfFollower =>
            /\ events' = events \o <<Event("become_follower", 0, TRUE),
                                     Event("return", 0, TRUE)>>
            /\ invoker' = invoker
            /\ tasks' = tasks
            /\ leadership' = "Follower"
            /\ leader_state' = leader_state
            /\ objects' = objects
            /\ instance' = instance
            /\ pc' = "idle"
            /\ stream' = "Follower"
            /\ <<timers, hints, effects>>' = <<timers, hints, effects>>
      ]_vars

(* A follower that had stepped down from epoch 1 was asked to step down     *)
(* again and returned at once                                               *)
C32_Witness ==
    /\ leadership = "Follower"
    /\ pc = "idle"
    /\ Len(events) >= 4
    /\ events[Len(events) - 1] = Event("become_follower", 0, TRUE)
    /\ events[Len(events)] = Event("return", 0, TRUE)
    /\ events[Len(events) - 2] = Event("return", 1, TRUE)
    /\ stream = "Follower"
    /\ \A t \in DOMAIN tasks : tasks[t].status = "finished"

(* The events of the latest transition, when it is a become_leader *)
BecomeLeaderSegment ==
    IF events # <<>> /\ events[CallStart].ev = "become_leader"
    THEN (CallStart + 1)..Len(events)
    ELSE {}

(* C33: in a become_leader, register_partition for the new (partition_id,   *)
(* leader_epoch) has succeeded before any invoke; every invocation the scan *)
(* of storage returns is invoked once, with that (partition_id,             *)
(* leader_epoch) and NoCachedJournal; the shuffle task is spawned only      *)
(* after the last invoke; and nothing is invoked or spawned when the        *)
(* registration fails.                                                      *)
C33_RegisterThenInvokeThenSpawn ==
    LET e == events[CallStart].leader_epoch
        seg == BecomeLeaderSegment
        registered(j) == \E r \in seg :
                            r < j /\ events[r] = Event("register_partition", e, TRUE)
    IN  /\ \A j \in seg :
            /\ events[j].ev \in {"invoke", "scan", "spawn"} =>
                    events[j].leader_epoch = e /\ registered(j)
            /\ events[j].ev = "spawn" =>
                    \A i \in seg : events[i].ev = "invoke" => i < j
            /\ events[j].ev = "register_partition" =>
                    /\ events[j].leader_epoch = e
                    /\ \A i \in seg : events[i].ev = "register_partition" => i = j
                    /\ ~events[j].ok =>
                            \A i \in seg : i > j => events[i].ev = "return"
        /\ pc = "scan" =>
            /\ Cardinality({j \in seg : events[j] = Event("invoke", e, TRUE)}) = call.resumed
            /\ \A id \in 1..call.resumed :
                    [ple |-> PartitionLeaderEpoch(e), id |-> id,
                     journal |-> "NoCachedJournal"] \in invoker.invocations

(* become_leader of epoch 1 registered the partition, resumed the invoked   *)
(* invocation, spawned the shuffle task and returned the leader state       *)
C33_Witness ==
    /\ events = <<Event("become_leader", 1, TRUE), Event("register_partition", 1, TRUE),
                  Event("invoke", 1, TRUE), Event("spawn", 1, TRUE),
                  Event("return", 1, TRUE)>>
    /\ leadership = "Leader"
    /\ invoker.invocations = {[ple |-> PartitionLeaderEpoch(1), id |-> 1,
                               journal |-> "NoCachedJournal"]}
    /\ tasks[1].status = "running"

(* C34: when the invoker answers NotRunning to a call made for an action,   *)
(* handle_actions returns the error at once: the step applies nothing, the  *)
(* effects of the earlier actions stay, no later action is applied, and the *)
(* leadership state is still the leader it was.                             *)
C34_InvokerErrorStopsBatch ==
    /\ [][(Handles(InvokerActions) /\ ~invoker.running) =>
                /\ pc' = "idle"
                /\ applied' = applied \o
                        <<Event(actions[Len(applied) + 1], CurrentEpoch, FALSE),
                          Event("return", CurrentEpoch, FALSE)>>
                /\ leadership' = "Leader"
                /\ leader_state' = leader_state
                /\ objects' = objects
                /\ tasks' = tasks
                /\ invoker' = invoker
                /\ <<timers, hints, effects, ingress, stream>>'
                        = <<timers, hints, effects, ingress, stream>>
          ]_vars
    /\ [][(pc = "idle" /\ applied # <<>> /\ batches' = batches) =>
                applied' = applied]_vars

(* A leader registered a timer and was then refused by the invoker: the     *)
(* timer is kept, the call returned the error and the state is a leader     *)
C34_Witness ==
    /\ leadership = "Leader"
    /\ pc = "idle"
    /\ actions = <<"RegisterTimer", "Invoke">>
    /\ applied = <<Event("RegisterTimer", 1, TRUE), Event("Invoke", 1, FALSE),
                   Event("return", 1, FALSE)>>
    /\ timers = {TimerKey}
    /\ invoker.invocations = {}

(* The leader epoch of the latest become_leader that had returned the       *)
(* leader state before event n, 0 if there is none                          *)
LastLed(n) ==
    LET led == {i \in 1..n : events[i].ev = "spawn" /\ events[i].ok}
    IN  IF led = {} THEN 0
        ELSE events[CHOOSE i \in led : \A j \in led : j <= i].leader_epoch

(* The leader epoch handed to the latest become_leader called before event n *)
LastAsked(n) ==
    LET asked == {i \in 1..n : events[i].ev = "become_leader"}
    IN  IF asked = {} THEN 0
        ELSE events[CHOOSE i \in asked : \A j \in asked : j <= i].leader_epoch

(* C35 as stated: every call on the invoker, register_partition and the     *)
(* invoke calls of become_leader included, carries the leader epoch of the  *)
(* latest become_leader that has succeeded.                                 *)
C35_AllCallsCarryLastLedEpoch ==
    \A j \in DOMAIN events :
        events[j].ev \in {"abort_all_partition", "register_partition", "invoke"} =>
            events[j].leader_epoch = LastLed(j)

(* C35: every call on the invoker carries the leader epoch of the term it   *)
(* is made for: abort_all_partition and the calls of handle_actions that of *)
(* the latest become_leader that succeeded, register_partition and invoke   *)
(* that of the become_leader in progress; once a leader of epoch e1 has     *)
(* handed off to a later epoch, no call carries e1 any more.                *)
C35_InvokerCallsCarryCurrentEpoch ==
    /\ [](\A j \in DOMAIN events :
            /\ events[j].ev = "abort_all_partition" =>
                    events[j].leader_epoch = LastLed(j)
            /\ events[j].ev \in {"register_partition", "invoke"} =>
                    /\ events[j].leader_epoch = LastAsked(j)
                    /\ events[j].leader_epoch > LastLed(j)
            /\ (events[j].ev = "spawn" /\ events[j].ok) =>
                    \A i \in (j + 1)..Len(events) :
                        events[i].ev \in {"abort_all_partition", "register_partition",
                                          "invoke"} =>
                            events[i].leader_epoch >= events[j].leader_epoch)
    /\ [][Handles(InvokerActions) =>
                /\ leadership = "Leader"
                /\ applied'[Len(applied) + 1].leader_epoch = LastLed(Len(events))
                /\ \A i \in invoker'.invocations \ invoker.invocations :
                        i.ple = PartitionLeaderEpoch(LastLed(Len(events)))
                /\ \A i \in invoker.invocations \ invoker'.invocations :
                        i.ple = PartitionLeaderEpoch(LastLed(Len(events)))
          ]_vars

(* The leader of epoch 1 handed off to epoch 2 and then handled an Invoke:  *)
(* the invocation was started for epoch 2                                   *)
C35_Witness ==
    /\ leadership = "Leader"
    /\ CurrentEpoch = 2
    /\ \E i \in DOMAIN events : events[i] = Event("spawn", 1, TRUE)
    /\ \E i \in DOMAIN events : events[i] = Event("abort_all_partition", 1, TRUE)
    /\ applied # <<>>
    /\ applied[1] = Event("Invoke", 2, TRUE)
    /\ [ple |-> PartitionLeaderEpoch(2), id |-> InvocationId,
        journal |-> "invoke_input_journal"] \in invoker.invocations
    /\ \A i \in invoker.invocations : i.ple # PartitionLeaderEpoch(1)

(* C31: run_timer called on a follower never yields a timer, whatever       *)
(* timers are stored, and touches no timer; called on a leader it yields    *)
(* the next timer of the timer service of the current term.                 *)
C31_OnlyLeaderTimersFire ==
    /\ [][fired' # fired =>
                /\ leadership \in {"Follower", "Leader"}
                /\ leadership = "Follower" =>
                        /\ fired'.value = {}
                        /\ fired'.leader_epoch = 0
                        /\ timers' = timers
                /\ leadership = "Leader" =>
                        /\ fired'.leader_epoch = CurrentEpoch
                        /\ fired'.value = next_timer(timers \cup fired'.stored)
                        /\ fired'.value # {} \/ (timers = {} /\ fired'.stored = {})
          ]_vars
    /\ [](leadership = "Follower" => timers = {})
    /\ [](fired.value # {} => fired.leader_epoch \in LeaderEpochs)

(* A processor that had led a term polled run_timer as a follower while     *)
(* every timer was stored and due: nothing was yielded                      *)
C31_Witness ==
    /\ leadership = "Follower"
    /\ \E i \in DOMAIN events : events[i].ev = "spawn" /\ events[i].ok
    /\ fired = [leader_epoch |-> 0, stored |-> TimerKeys, value |-> {}]


-----------------------------------------------------------------------------
(* The deployment that a step removes: remove_deployment is the only        *)
(* operation that takes a record out of `deployments`.                      *)
RemovedDeployments == DOMAIN deployments \ DOMAIN deployments'

(* The catalog that the three calls of OrphanedCatalog leave is a catalog   *)
(* of the default session: it is reached from the empty catalog.            *)
OrphanedCatalogReached ==
    /\ deployments = OrphanedCatalog.deployments
    /\ components = OrphanedCatalog.components
    /\ subscriptions = OrphanedCatalog.subscriptions

(* C36: remove_deployment(d) never deletes a component whose                *)
(* location.latest_deployment is a deployment other than d; a component     *)
(* named in d's snapshot that was deleted and later re-created at revision  *)
(* 1 by another deployment stays in place when d is removed.                *)
C36_RemoveKeepsComponentsOfOthers ==
    [][\A d \in RemovedDeployments :
          \A c \in DOMAIN components :
              components[c].location.latest_deployment # d => c \in DOMAIN components']_vars

-----------------------------------------------------------------------------
(* The deployments whose record a step rewrites: a forced add_deployment    *)
(* over an existing deployment is the only operation that replaces the      *)
(* record of a deployment that stays registered (updater.rs:98-104,         *)
(* 230-236).                                                                *)
RedeployedDeployments ==
    {d \in DOMAIN deployments \cap DOMAIN deployments' : deployments'[d] # deployments[d]}

(* C37: a forced add_deployment over an existing deployment d never deletes *)
(* a component whose location.latest_deployment is a deployment other than  *)
(* d; a component that d once registered and that another deployment later  *)
(* overwrote survives a forced redeployment of d whose proposal omits it.   *)
C37_RedeployKeepsComponentsOfOthers ==
    [][\A d \in RedeployedDeployments :
          \A c \in DOMAIN components :
              components[c].location.latest_deployment # d => c \in DOMAIN components']_vars

-----------------------------------------------------------------------------
(* C38: in every reachable state every handler of every component has      *)
(* target_meta.public equal to the location.public of its component, in     *)
(* particular after a private component was updated by an add_deployment.   *)
C38_HandlersFollowComponentVisibility ==
    \A c \in DOMAIN components :
        \A h \in DOMAIN components[c].handlers :
            components[c].handlers[h].target_meta.public = components[c].location.public

-----------------------------------------------------------------------------
(* C39: in every reachable state no two deployment records have the same    *)
(* endpoint; an add_deployment whose requested id names one deployment      *)
(* while its endpoint is that of another never leaves both stored with      *)
(* that endpoint.                                                           *)
C39_EndpointsAreUnique ==
    \A d1, d2 \in DOMAIN deployments :
        deployments[d1].metadata.address = deployments[d2].metadata.address => d1 = d2

-----------------------------------------------------------------------------
(* C40: in every reachable state the Component sink of every stored         *)
(* subscription names a component present in `components` and a handler     *)
(* present in that component; add_subscription establishes it and           *)
(* remove_deployment and forced add_deployment preserve it.                 *)
C40_SinksExist ==
    \A id \in DOMAIN subscriptions :
        subscriptions[id].sink.kind = "Component" =>
            /\ subscriptions[id].sink.name \in DOMAIN components
            /\ subscriptions[id].sink.handler \in
                   DOMAIN components[subscriptions[id].sink.name].handlers

====
